---------------------------- MODULE Spec2Model ----------------------------
(***************************************************************************)
(* A model of the chess game of this repository: the rule engine           *)
(* (js/pieces.js, js/rules.js, the helpers of js/utils.js), the search     *)
(* engine (js/ai.js) and the game controller (class ChessGame of           *)
(* js/utils.js, class Board).                                              *)
(*                                                                         *)
(* A board is a function board[row][col], rows and columns 0..7, of piece  *)
(* codes; the JavaScript null is the value null below.  An optional        *)
(* square ([row, col] or null) is the tuple <<row, col>> or the empty      *)
(* tuple; an array is a sequence, in the order the code builds it.         *)
(***************************************************************************)
EXTENDS Integers, Sequences, FiniteSets, TLC

VARIABLES game,      \* the fields of the ChessGame object, and the page's timer queue
          applied,   \* number of moves applied since the model's first state
          fired,     \* number of makeAIMove callbacks run since the first state
          node,      \* a position handed to the search engine
          result     \* what the search engine returned for it

vars == <<game, applied, fired, node, result>>

-----------------------------------------------------------------------------
(* js/utils.js: constants *)

null == "null"
NoSquare == <<>>

WHITE == "white"
BLACK == "black"

WhitePieces == {"P", "N", "B", "R", "Q", "K"}
BlackPieces == {"p", "n", "b", "r", "q", "k"}

toUpperCase(piece) ==
    CASE piece = "p" -> "P" [] piece = "n" -> "N" [] piece = "b" -> "B"
      [] piece = "r" -> "R" [] piece = "q" -> "Q" [] piece = "k" -> "K"
      [] OTHER -> piece

toLowerCase(piece) ==
    CASE piece = "P" -> "p" [] piece = "N" -> "n" [] piece = "B" -> "b"
      [] piece = "R" -> "r" [] piece = "Q" -> "q" [] piece = "K" -> "k"
      [] OTHER -> piece

PIECE_VALUE(type) ==
    CASE type = "P" -> 1 [] type = "N" -> 3 [] type = "B" -> 3
      [] type = "R" -> 5 [] type = "Q" -> 9 [] type = "K" -> 0

getPieceColor(piece) ==
    IF piece = null THEN null
    ELSE IF piece = toUpperCase(piece) THEN WHITE ELSE BLACK

getPieceType(piece) ==
    IF piece = null THEN null ELSE toUpperCase(piece)

createPiece(type, color) ==
    IF color = WHITE THEN toUpperCase(type) ELSE toLowerCase(type)

Files == <<"a", "b", "c", "d", "e", "f", "g", "h">>

coordsToNotation(row, col) == <<Files[col + 1], 8 - row>>

\* A copy is a new value: boards are values here, so the copy is the board.
copyBoard(board) == [row \in 0..7 |-> [col \in 0..7 |-> board[row][col]]]

isValidCoord(row, col) == row >= 0 /\ row < 8 /\ col >= 0 /\ col < 8

Other(color) == IF color = WHITE THEN BLACK ELSE WHITE

Abs(n) == IF n < 0 THEN -n ELSE n

\* The JavaScript expression board[row][col].  A row outside the array is
\* undefined, and reading a property of undefined throws a TypeError; a column
\* outside the row is undefined, which every test of the code (!piece) treats
\* as it treats null.
indexThrows(board, row, col) == row \notin DOMAIN board

index(board, row, col) == IF col \in DOMAIN board[row] THEN board[row][col] ELSE null

\* The squares in the order of the code's nested row/col loops.
AllSquares == [i \in 1..64 |-> <<(i - 1) \div 8, (i - 1) % 8>>]

getPiecesOfColor(board, color) ==
    LET owned == SelectSeq(AllSquares,
                   LAMBDA s : board[s[1]][s[2]] # null
                              /\ getPieceColor(board[s[1]][s[2]]) = color)
    IN  [i \in 1..Len(owned) |->
            [piece |-> board[owned[i][1]][owned[i][2]],
             row |-> owned[i][1], col |-> owned[i][2]]]

findKing(board, color) ==
    LET kingPiece == IF color = WHITE THEN "K" ELSE "k"
        found == SelectSeq(AllSquares, LAMBDA s : board[s[1]][s[2]] = kingPiece)
    IN  IF found = <<>> THEN NoSquare ELSE found[1]

\* Concatenation of a sequence of sequences.
RECURSIVE Flatten(_)
Flatten(ss) == IF ss = <<>> THEN <<>> ELSE Head(ss) \o Flatten(Tail(ss))

Contains(moves, row, col) == \E i \in 1..Len(moves) : moves[i] = <<row, col>>

KnightOffsets == << <<-2, -1>>, <<-2, 1>>, <<-1, -2>>, <<-1, 2>>,
                    <<1, -2>>, <<1, 2>>, <<2, -1>>, <<2, 1>> >>

KingOffsets == << <<-1, -1>>, <<-1, 0>>, <<-1, 1>>, <<0, -1>>, <<0, 1>>,
                  <<1, -1>>, <<1, 0>>, <<1, 1>> >>

RookDirections == << <<0, 1>>, <<0, -1>>, <<1, 0>>, <<-1, 0>> >>

BishopDirections == << <<1, 1>>, <<1, -1>>, <<-1, 1>>, <<-1, -1>> >>

\* generatePieceMoves, sliding pieces: every square of the ray up to and
\* including the first occupied one.
\* A ray that does not stop at an occupied square.
RECURSIVE RawRayThroughPieces(_, _, _, _, _)
RawRayThroughPieces(board, row, col, dr, dc) ==
    IF ~isValidCoord(row, col) THEN <<>>
    ELSE << <<row, col>> >> \o RawRayThroughPieces(board, row + dr, col + dc, dr, dc)

RECURSIVE RawRay(_, _, _, _, _)
RawRay(board, row, col, dr, dc) ==
    IF ~isValidCoord(row, col) THEN <<>>
    ELSE IF board[row][col] # null THEN << <<row, col>> >>
    ELSE << <<row, col>> >> \o RawRay(board, row + dr, col + dc, dr, dc)

generatePieceMoves(board, row, col, type) ==
    LET piece == board[row][col]
        color == getPieceColor(piece)
        direction == IF color = WHITE THEN -1 ELSE 1
        startRow == IF color = WHITE THEN 6 ELSE 1
        forward ==
            IF isValidCoord(row + direction, col) /\ board[row + direction][col] = null
            THEN << <<row + direction, col>> >> \o
                 (IF row = startRow /\ board[row + 2 * direction][col] = null
                  THEN << <<row + 2 * direction, col>> >> ELSE <<>>)
            ELSE <<>>
        captures ==
            SelectSeq(<< <<row + direction, col - 1>>, <<row + direction, col + 1>> >>,
                      LAMBDA p : isValidCoord(p[1], p[2]) /\ board[p[1]][p[2]] # null)
        offsets(table) ==
            SelectSeq([i \in 1..Len(table) |-> <<row + table[i][1], col + table[i][2]>>],
                      LAMBDA p : isValidCoord(p[1], p[2]))
        directions ==
            (IF type = "R" \/ type = "Q" THEN RookDirections ELSE <<>>) \o
            (IF type = "B" \/ type = "Q" THEN BishopDirections ELSE <<>>)
    IN  CASE type = "P" -> forward \o captures
          [] type = "N" -> offsets(KnightOffsets)
          [] type \in {"B", "R", "Q"} ->
               Flatten([i \in 1..Len(directions) |->
                          RawRay(board, row + directions[i][1], col + directions[i][2],
                                 directions[i][1], directions[i][2])])
          [] type = "K" -> offsets(KingOffsets)
          [] OTHER -> <<>>

isSquareAttacked(board, row, col, color) ==
    LET opponent == IF color = WHITE THEN BLACK ELSE WHITE
    IN  \E pieces \in {getPiecesOfColor(board, opponent)} :
            \E i \in 1..Len(pieces) :
                Contains(generatePieceMoves(board, pieces[i].row, pieces[i].col,
                                            getPieceType(pieces[i].piece)), row, col)

-----------------------------------------------------------------------------
(* js/pieces.js *)

getPawnMoves(board, row, col, color) ==
    LET direction == IF color = WHITE THEN -1 ELSE 1
        startRow == IF color = WHITE THEN 6 ELSE 1
        oneForward == row + direction
        forward ==
            IF isValidCoord(oneForward, col) /\ board[oneForward][col] = null
            THEN << <<oneForward, col>> >> \o
                 (IF row = startRow /\ board[row + 2 * direction][col] = null
                  THEN << <<row + 2 * direction, col>> >> ELSE <<>>)
            ELSE <<>>
        captures ==
            SelectSeq(<< <<row + direction, col - 1>>, <<row + direction, col + 1>> >>,
                      LAMBDA p : isValidCoord(p[1], p[2])
                                 /\ board[p[1]][p[2]] # null
                                 /\ getPieceColor(board[p[1]][p[2]]) # color)
    IN  forward \o captures

OffsetMoves(board, row, col, color, table) ==
    SelectSeq([i \in 1..Len(table) |-> <<row + table[i][1], col + table[i][2]>>],
              LAMBDA p : isValidCoord(p[1], p[2])
                         /\ (board[p[1]][p[2]] = null
                             \/ getPieceColor(board[p[1]][p[2]]) # color))

getKnightMoves(board, row, col, color) == OffsetMoves(board, row, col, color, KnightOffsets)

\* One direction of a sliding piece: empty squares, then an enemy piece's
\* square; the ray stops at the first occupied square.
RECURSIVE Ray(_, _, _, _, _, _)
Ray(board, row, col, dr, dc, color) ==
    IF ~isValidCoord(row, col) THEN <<>>
    ELSE IF board[row][col] = null
         THEN << <<row, col>> >> \o Ray(board, row + dr, col + dc, dr, dc, color)
    ELSE IF getPieceColor(board[row][col]) # color THEN << <<row, col>> >>
    ELSE <<>>

SlidingMoves(board, row, col, color, directions) ==
    Flatten([i \in 1..Len(directions) |->
               Ray(board, row + directions[i][1], col + directions[i][2],
                   directions[i][1], directions[i][2], color)])

getBishopMoves(board, row, col, color) ==
    SlidingMoves(board, row, col, color, BishopDirections)

getRookMoves(board, row, col, color) ==
    SlidingMoves(board, row, col, color, RookDirections)

getQueenMoves(board, row, col, color) ==
    SlidingMoves(board, row, col, color, RookDirections \o BishopDirections)

getKingMoves(board, row, col, color) == OffsetMoves(board, row, col, color, KingOffsets)

getPseudoLegalMoves(board, row, col) ==
    LET piece == index(board, row, col)
        color == getPieceColor(piece)
        type == getPieceType(piece)
    IN  IF piece = null THEN <<>>
        ELSE CASE type = "P" -> getPawnMoves(board, row, col, color)
               [] type = "N" -> getKnightMoves(board, row, col, color)
               [] type = "B" -> getBishopMoves(board, row, col, color)
               [] type = "R" -> getRookMoves(board, row, col, color)
               [] type = "Q" -> getQueenMoves(board, row, col, color)
               [] type = "K" -> getKingMoves(board, row, col, color)

\* A castling generator that does not look at the squares between the king
\* and the rook.
getCastlingMovesUnblocked(board, kingRow, kingCol, color, castlingRights) ==
    LET isWhite == color = WHITE
        home == IF isWhite THEN 7 ELSE 0
        rook == IF isWhite THEN "R" ELSE "r"
        kingside == IF isWhite THEN castlingRights.whiteKingside
                    ELSE castlingRights.blackKingside
        queenside == IF isWhite THEN castlingRights.whiteQueenside
                     ELSE castlingRights.blackQueenside
    IN  IF kingRow # home THEN <<>>
        ELSE (IF kingside /\ board[home][7] = rook THEN << <<home, 6>> >> ELSE <<>>)
             \o (IF queenside /\ board[home][0] = rook THEN << <<home, 2>> >> ELSE <<>>)

getCastlingMoves(board, kingRow, kingCol, color, castlingRights) ==
    LET isWhite == color = WHITE
        kingside ==
            IF isWhite /\ castlingRights.whiteKingside
            THEN IF board[7][7] = "R" /\ board[7][5] = null /\ board[7][6] = null
                 THEN << <<7, 6>> >> ELSE <<>>
            ELSE IF ~isWhite /\ castlingRights.blackKingside
            THEN IF board[0][7] = "r" /\ board[0][5] = null /\ board[0][6] = null
                 THEN << <<0, 6>> >> ELSE <<>>
            ELSE <<>>
        queenside ==
            IF isWhite /\ castlingRights.whiteQueenside
            THEN IF board[7][0] = "R" /\ board[7][1] = null /\ board[7][2] = null
                    /\ board[7][3] = null
                 THEN << <<7, 2>> >> ELSE <<>>
            ELSE IF ~isWhite /\ castlingRights.blackQueenside
            THEN IF board[0][0] = "r" /\ board[0][1] = null /\ board[0][2] = null
                    /\ board[0][3] = null
                 THEN << <<0, 2>> >> ELSE <<>>
            ELSE <<>>
    IN  IF (isWhite /\ kingRow # 7) \/ (~isWhite /\ kingRow # 0) THEN <<>>
        ELSE kingside \o queenside

\* An en-passant generator that looks at one side of the pawn only.
getEnPassantMovesOneSide(board, pawnRow, pawnCol, color, enPassantSquare) ==
    IF enPassantSquare = NoSquare THEN <<>>
    ELSE IF getPieceType(board[pawnRow][pawnCol]) # "P" THEN <<>>
    ELSE IF enPassantSquare[1] = pawnRow + (IF color = WHITE THEN -1 ELSE 1)
            /\ enPassantSquare[2] - pawnCol = 1
         THEN <<enPassantSquare>>
    ELSE <<>>

getEnPassantMoves(board, pawnRow, pawnCol, color, enPassantSquare) ==
    LET piece == board[pawnRow][pawnCol]
        direction == IF color = WHITE THEN -1 ELSE 1
        captureRow == pawnRow + direction
    IN  IF enPassantSquare = NoSquare THEN <<>>
        ELSE IF getPieceType(piece) # "P" THEN <<>>
        ELSE IF enPassantSquare[1] = captureRow /\ Abs(enPassantSquare[2] - pawnCol) = 1
             THEN <<enPassantSquare>>
        ELSE <<>>

-----------------------------------------------------------------------------
(* js/rules.js *)

\* The rook's relocation when a king leaves its home square for column 6 or 2
\* (wouldLeaveKingInCheck lines 75-100, ChessAI.simulateMove lines 385-406).
CastleRookOnCopyNever(board, piece, fromRow, fromCol, toCol) == board

CastleRookOnCopy(board, piece, fromRow, fromCol, toCol) ==
    LET isWhite == getPieceColor(piece) = WHITE
        home == IF isWhite THEN 7 ELSE 0
    IN  IF piece # null /\ getPieceType(piece) = "K" /\ fromRow = home /\ fromCol = 4
        THEN IF toCol = 6
             THEN [board EXCEPT ![home][5] = board[home][7], ![home][7] = null]
             ELSE IF toCol = 2
             THEN [board EXCEPT ![home][3] = board[home][0], ![home][0] = null]
             ELSE board
        ELSE board

\* The board wouldLeaveKingInCheck tests: the move made on a copy.
testBoardAfter(board, fromRow, fromCol, toRow, toCol, enPassantSquare) ==
    LET copy == copyBoard(board)
        piece == copy[fromRow][fromCol]
        moved ==
            IF piece # null /\ getPieceType(piece) = "P" /\ enPassantSquare # NoSquare
               /\ toRow = enPassantSquare[1] /\ toCol = enPassantSquare[2]
            THEN [[[copy EXCEPT ![toRow][toCol] = piece]
                         EXCEPT ![fromRow][fromCol] = null]
                         EXCEPT ![fromRow][toCol] = null]
            ELSE [[copy EXCEPT ![toRow][toCol] = piece]
                        EXCEPT ![fromRow][fromCol] = null]
    IN  CastleRookOnCopy(moved, piece, fromRow, fromCol, toCol)

\* A filter that looks at the king on the board as it is before the move.
wouldLeaveKingInCheckBeforeMove(board, fromRow, fromCol, toRow, toCol, color, castlingRights, enPassantSquare) ==
    LET kingPos == findKing(board, color)
    IN  IF kingPos = NoSquare THEN TRUE
        ELSE isSquareAttacked(board, kingPos[1], kingPos[2], color)

wouldLeaveKingInCheck(board, fromRow, fromCol, toRow, toCol, color, castlingRights, enPassantSquare) ==
    \E testBoard \in {testBoardAfter(board, fromRow, fromCol, toRow, toCol,
                                      enPassantSquare)} :
        \E kingPos \in {findKing(testBoard, color)} :
            IF kingPos = NoSquare THEN TRUE
            ELSE isSquareAttacked(testBoard, kingPos[1], kingPos[2], color)

getLegalMoves(board, row, col, castlingRights, enPassantSquare, color) ==
    LET piece == index(board, row, col)
        type == getPieceType(piece)
        pseudoLegal ==
            getPseudoLegalMoves(board, row, col)
            \o (IF type = "K"
                THEN getCastlingMoves(board, row, col, color, castlingRights)
                ELSE <<>>)
            \o (IF type = "P"
                THEN getEnPassantMoves(board, row, col, color, enPassantSquare)
                ELSE <<>>)
    IN  IF piece = null \/ getPieceColor(piece) # color THEN <<>>
        ELSE SelectSeq(pseudoLegal,
               LAMBDA m : ~wouldLeaveKingInCheck(board, row, col, m[1], m[2], color,
                                                 castlingRights, enPassantSquare))

isInCheck(board, color) ==
    LET kingPos == findKing(board, color)
    IN  IF kingPos = NoSquare THEN FALSE
        ELSE isSquareAttacked(board, kingPos[1], kingPos[2], color)

\* The loop of isCheckmate and isStalemate: some piece has a legal move.
HasLegalMove(board, color, castlingRights, enPassantSquare) ==
    \E pieces \in {getPiecesOfColor(board, color)} :
        \E i \in 1..Len(pieces) :
            Len(getLegalMoves(board, pieces[i].row, pieces[i].col, castlingRights,
                              enPassantSquare, color)) > 0

\* A checkmate test that stops at the check.
isCheckmateOnCheck(board, color, castlingRights, enPassantSquare) ==
    isInCheck(board, color)

isCheckmate(board, color, castlingRights, enPassantSquare) ==
    IF ~isInCheck(board, color) THEN FALSE
    ELSE IF HasLegalMove(board, color, castlingRights, enPassantSquare) THEN FALSE
    ELSE TRUE

\* A stalemate test that looks at the first piece only.
isStalemateFirstPiece(board, color, castlingRights, enPassantSquare) ==
    LET pieces == getPiecesOfColor(board, color)
    IN  /\ ~isInCheck(board, color)
        /\ \/ Len(pieces) = 0
           \/ Len(getLegalMoves(board, pieces[1].row, pieces[1].col, castlingRights,
                                enPassantSquare, color)) = 0

isStalemate(board, color, castlingRights, enPassantSquare) ==
    IF isInCheck(board, color) THEN FALSE
    ELSE IF HasLegalMove(board, color, castlingRights, enPassantSquare) THEN FALSE
    ELSE TRUE

\* A material test that takes any two bishops for a draw.
isInsufficientMaterialAnyBishops(board) ==
    LET whitePieces == getPiecesOfColor(board, WHITE)
        blackPieces == getPiecesOfColor(board, BLACK)
        nonKing == SelectSeq(whitePieces \o blackPieces,
                             LAMBDA p : getPieceType(p.piece) # "K")
    IN  \/ Len(nonKing) = 0
        \/ Len(nonKing) = 1 /\ getPieceType(nonKing[1].piece) \in {"N", "B"}
        \/ /\ Len(whitePieces) = 2 /\ Len(blackPieces) = 2
           /\ \A i \in 1..2 : getPieceType(nonKing[i].piece) = "B"

isInsufficientMaterial(board) ==
    LET whitePieces == getPiecesOfColor(board, WHITE)
        blackPieces == getPiecesOfColor(board, BLACK)
        whiteNonKing == SelectSeq(whitePieces, LAMBDA p : getPieceType(p.piece) # "K")
        blackNonKing == SelectSeq(blackPieces, LAMBDA p : getPieceType(p.piece) # "K")
        single == IF Len(whiteNonKing) = 1 THEN whiteNonKing[1] ELSE blackNonKing[1]
    IN  IF Len(whitePieces) = 1 /\ Len(blackPieces) = 1 THEN TRUE
        ELSE IF Len(whiteNonKing) = 0 /\ Len(blackNonKing) = 0 THEN TRUE
        ELSE IF ((Len(whiteNonKing) = 1 /\ Len(blackNonKing) = 0)
                 \/ (Len(whiteNonKing) = 0 /\ Len(blackNonKing) = 1))
                /\ getPieceType(single.piece) \in {"N", "B"} THEN TRUE
        ELSE IF Len(whiteNonKing) = 1 /\ Len(blackNonKing) = 1
                /\ getPieceType(whiteNonKing[1].piece) = "B"
                /\ getPieceType(blackNonKing[1].piece) = "B"
                /\ (whiteNonKing[1].row + whiteNonKing[1].col) % 2
                   = (blackNonKing[1].row + blackNonKing[1].col) % 2 THEN TRUE
        ELSE FALSE

isPromotionMove(board, fromRow, toRow, piece) ==
    IF getPieceType(piece) # "P" THEN FALSE
    ELSE LET isWhite == getPieceColor(piece) = WHITE
         IN  (isWhite /\ toRow = 0) \/ (~isWhite /\ toRow = 7)

\* A castling test that sees a castle in no move.
isCastlingMoveNever(fromRow, fromCol, toRow, toCol, piece) == FALSE

isCastlingMove(fromRow, fromCol, toRow, toCol, piece) ==
    IF getPieceType(piece) # "K" THEN FALSE
    ELSE IF fromRow # toRow THEN FALSE
    ELSE Abs(toCol - fromCol) = 2

isEnPassantMove(fromRow, toRow, toCol, board, piece, enPassantSquare) ==
    IF getPieceType(piece) # "P" THEN FALSE
    ELSE IF enPassantSquare = NoSquare THEN FALSE
    ELSE IF toRow # enPassantSquare[1] \/ toCol # enPassantSquare[2] THEN FALSE
    ELSE IF board[toRow][toCol] # null THEN FALSE
    ELSE TRUE

\* An update that starts from fresh rights instead of the rights it is given.
updateCastlingRightsFresh(castlingRights, fromRow, fromCol, piece) ==
    LET type == getPieceType(piece)
        color == getPieceColor(piece)
    IN  [whiteKingside |->
            ~((type = "K" /\ color = WHITE)
              \/ (color = WHITE /\ fromRow = 7 /\ fromCol = 7)),
         whiteQueenside |->
            ~((type = "K" /\ color = WHITE)
              \/ (color = WHITE /\ fromRow = 7 /\ fromCol = 0)),
         blackKingside |->
            ~((type = "K" /\ color # WHITE)
              \/ (color = BLACK /\ fromRow = 0 /\ fromCol = 7)),
         blackQueenside |->
            ~((type = "K" /\ color # WHITE)
              \/ (color = BLACK /\ fromRow = 0 /\ fromCol = 0))]

updateCastlingRights(castlingRights, fromRow, fromCol, piece) ==
    LET type == getPieceType(piece)
        color == getPieceColor(piece)
        kingMoved(c) == type = "K" /\ color = c
    IN  [whiteKingside |->
            IF kingMoved(WHITE) \/ (color = WHITE /\ fromRow = 7 /\ fromCol = 7)
            THEN FALSE ELSE castlingRights.whiteKingside,
         whiteQueenside |->
            IF kingMoved(WHITE) \/ (color = WHITE /\ fromRow = 7 /\ fromCol = 0)
            THEN FALSE ELSE castlingRights.whiteQueenside,
         blackKingside |->
            IF (type = "K" /\ color # WHITE) \/ (color = BLACK /\ fromRow = 0 /\ fromCol = 7)
            THEN FALSE ELSE castlingRights.blackKingside,
         blackQueenside |->
            IF (type = "K" /\ color # WHITE) \/ (color = BLACK /\ fromRow = 0 /\ fromCol = 0)
            THEN FALSE ELSE castlingRights.blackQueenside]

\* An update that does not look at the type of the piece.
updateEnPassantSquareAnyPiece(fromRow, toRow, toCol, piece) ==
    IF Abs(toRow - fromRow) # 2 THEN NoSquare
    ELSE <<(fromRow + toRow) \div 2, toCol>>

updateEnPassantSquare(fromRow, toRow, toCol, piece) ==
    IF getPieceType(piece) # "P" THEN NoSquare
    ELSE IF Abs(toRow - fromRow) # 2 THEN NoSquare
    ELSE <<(fromRow + toRow) \div 2, toCol>>

\* A legality test that stops at the reach of the piece.
isMoveLegalWithinReach(board, fromRow, fromCol, toRow, toCol, color, castlingRights, enPassantSquare) ==
    /\ getPieceColor(board[fromRow][fromCol]) = color
    /\ Contains(getPseudoLegalMoves(board, fromRow, fromCol), toRow, toCol)

isMoveLegal(board, fromRow, fromCol, toRow, toCol, color, castlingRights, enPassantSquare) ==
    Contains(getLegalMoves(board, fromRow, fromCol, castlingRights, enPassantSquare,
                           color), toRow, toCol)

\* A caller that leaves the rights alone when a rook is captured.
clearCapturedRookRightsNever(rights, captured, toRow, toCol) == rights

\* A home-corner rook was captured: lines 545-554 of ChessGame.makeMove and
\* lines 411-422 of ChessAI.simulateMove.
clearCapturedRookRights(rights, captured, toRow, toCol) ==
    IF captured # null /\ getPieceType(captured) = "R"
    THEN IF getPieceColor(captured) = WHITE
         THEN [rights EXCEPT
                 !.whiteKingside = IF toRow = 7 /\ toCol = 7 THEN FALSE ELSE @,
                 !.whiteQueenside = IF toRow = 7 /\ toCol = 0 THEN FALSE ELSE @]
         ELSE [rights EXCEPT
                 !.blackKingside = IF toRow = 0 /\ toCol = 7 THEN FALSE ELSE @,
                 !.blackQueenside = IF toRow = 0 /\ toCol = 0 THEN FALSE ELSE @]
    ELSE rights

-----------------------------------------------------------------------------
(* js/ai.js: class ChessAI *)

\* Scores are kept in tenths: evaluateBoard weighs its terms by 0.3 and 0.1,
\* so every score of the code is Scale times smaller than the integer here.
Scale == 10

Infinity == 10000000

CheckmateScore == 10000 * Scale

Max(a, b) == IF a >= b THEN a ELSE b

Min(a, b) == IF a <= b THEN a ELSE b

NoMove == <<>>

getMaxDepth(difficulty) ==
    CASE difficulty = "easy" -> 0
      [] difficulty = "medium" -> 2
      [] difficulty = "hard" -> 4
      [] OTHER -> 2

getAllLegalMoves(board, color, castlingRights, enPassantSquare) ==
    LET pieces == getPiecesOfColor(board, color)
    IN  Flatten([i \in 1..Len(pieces) |->
          LET legalMoves == getLegalMoves(board, pieces[i].row, pieces[i].col,
                                          castlingRights, enPassantSquare, color)
          IN  [j \in 1..Len(legalMoves) |->
                 [from |-> <<pieces[i].row, pieces[i].col>>, to |-> legalMoves[j]]]])

simulateMove(board, move, castlingRights, enPassantSquare) ==
    LET copy == copyBoard(board)
        fromRow == move.from[1]
        fromCol == move.from[2]
        toRow == move.to[1]
        toCol == move.to[2]
        piece == copy[fromRow][fromCol]
        moved ==
            IF piece # null /\ getPieceType(piece) = "P" /\ enPassantSquare # NoSquare
               /\ toRow = enPassantSquare[1] /\ toCol = enPassantSquare[2]
            THEN [[[copy EXCEPT ![toRow][toCol] = piece]
                         EXCEPT ![fromRow][fromCol] = null]
                         EXCEPT ![fromRow][toCol] = null]
            ELSE [[copy EXCEPT ![toRow][toCol] = piece]
                        EXCEPT ![fromRow][fromCol] = null]
        capturedPiece == board[toRow][toCol]
    IN  [newBoard |-> CastleRookOnCopy(moved, piece, fromRow, fromCol, toCol),
         newCastling |->
            clearCapturedRookRights(
                updateCastlingRights(castlingRights, fromRow, fromCol, piece),
                capturedPiece, toRow, toCol),
         newEnPassant |->
            IF piece # null /\ getPieceType(piece) = "P" /\ Abs(toRow - fromRow) = 2
            THEN <<(fromRow + toRow) \div 2, toCol>> ELSE NoSquare]

evaluateKingSafety(board, kingPos, color) ==
    (IF kingPos[2] = 6 \/ kingPos[2] = 2 THEN 15 ELSE 0)
    + (IF kingPos[2] >= 3 /\ kingPos[2] <= 4 /\ kingPos[1] >= 2 /\ kingPos[1] <= 5
       THEN -20 ELSE 0)

RECURSIVE SumSeq(_)
SumSeq(s) == IF s = <<>> THEN 0 ELSE Head(s) + SumSeq(Tail(s))

CenterSquares == << <<3, 3>>, <<3, 4>>, <<4, 3>>, <<4, 4>> >>

evaluateCenterControl(board, color) ==
    SumSeq([i \in 1..Len(CenterSquares) |->
        LET piece == board[CenterSquares[i][1]][CenterSquares[i][2]]
        IN  IF piece # null /\ getPieceColor(piece) = color
            THEN PIECE_VALUE(getPieceType(piece))
            ELSE IF piece # null /\ getPieceColor(piece) # color
            THEN -PIECE_VALUE(getPieceType(piece))
            ELSE 0])

evaluateMobilityOnePerPiece(board, color) == Len(getPiecesOfColor(board, color))

evaluateMobility(board, color) == Len(getPiecesOfColor(board, color)) * 2

\* Ten times the code's score: material and king safety count 10, the centre
\* control 3 (0.3), the mobility 1 (0.1).
evaluateBoard(board, color) ==
    LET whitePieces == getPiecesOfColor(board, WHITE)
        blackPieces == getPiecesOfColor(board, BLACK)
        material ==
            SumSeq([i \in 1..Len(whitePieces) |->
                      PIECE_VALUE(getPieceType(whitePieces[i].piece))])
            - SumSeq([i \in 1..Len(blackPieces) |->
                        PIECE_VALUE(getPieceType(blackPieces[i].piece))])
        kingPos == findKing(board, color)
    IN  Scale * (IF color = BLACK THEN -material ELSE material)
        + (IF kingPos # NoSquare
           THEN Scale * evaluateKingSafety(board, kingPos, color) ELSE 0)
        + 3 * evaluateCenterControl(board, color)
        + 1 * evaluateMobility(board, color)

RECURSIVE minimaxSearch(_, _, _, _, _, _)
RECURSIVE minimaxSearchLoop(_, _, _, _, _, _, _, _, _)
minimaxSearchLoop(board, color, castlingRights, enPassantSquare, depth, isMaximizing, moves, i, bestScore) ==
    IF i > Len(moves) THEN bestScore
    ELSE LET sim == simulateMove(board, moves[i], castlingRights, enPassantSquare)
             score == minimaxSearch(sim.newBoard, color, sim.newCastling,
                                    sim.newEnPassant, depth - 1, ~isMaximizing)
         IN  minimaxSearchLoop(board, color, castlingRights, enPassantSquare, depth,
                               isMaximizing, moves, i + 1,
                               IF isMaximizing THEN Max(bestScore, score)
                               ELSE Min(bestScore, score))

minimaxSearch(board, color, castlingRights, enPassantSquare, depth, isMaximizing) ==
    LET opponent == IF color = WHITE THEN BLACK ELSE WHITE
        currentColor == IF isMaximizing THEN color ELSE opponent
    IN  IF isCheckmate(board, currentColor, castlingRights, enPassantSquare)
        THEN (IF isMaximizing THEN CheckmateScore ELSE -CheckmateScore)
        ELSE IF isStalemate(board, currentColor, castlingRights, enPassantSquare) THEN 0
        ELSE IF isInsufficientMaterial(board) THEN 0
        ELSE IF depth = 0 THEN evaluateBoard(board, color)
        ELSE minimaxSearchLoop(board, color, castlingRights, enPassantSquare, depth,
                               isMaximizing,
                               getAllLegalMoves(board, currentColor, castlingRights,
                                                enPassantSquare),
                               1, IF isMaximizing THEN -Infinity ELSE Infinity)

\* One iteration of the root loop of minimax: best is the pair bestMove,
\* bestValue before the iteration, score the value the search returned.
minimaxStep(isMaximizing, best, move, score) ==
    IF (isMaximizing /\ score > best.value) \/ (~isMaximizing /\ score < best.value)
    THEN [move |-> move, value |-> score]
    ELSE best

\* The root loop of minimax: each iteration searches the board it was given.
RECURSIVE minimaxLoop(_, _, _, _, _, _, _, _, _)
minimaxLoop(board, color, castlingRights, enPassantSquare, depth, isMaximizing, moves, i, best) ==
    IF i > Len(moves) THEN best.move
    ELSE minimaxLoop(board, color, castlingRights, enPassantSquare, depth,
                     isMaximizing, moves, i + 1,
                     minimaxStep(isMaximizing, best, moves[i],
                                 minimaxSearch(board, color, castlingRights,
                                               enPassantSquare, depth - 1,
                                               ~isMaximizing)))

minimax(board, color, castlingRights, enPassantSquare, depth, isMaximizing) ==
    LET moves == getAllLegalMoves(board, color, castlingRights, enPassantSquare)
    IN  IF depth = 0 THEN NoMove
        ELSE IF Len(moves) = 0 THEN NoMove
        ELSE minimaxLoop(board, color, castlingRights, enPassantSquare, depth,
                         isMaximizing, moves, 1,
                         [move |-> moves[1],
                          value |-> IF isMaximizing THEN -Infinity ELSE Infinity])

\* An iteration that breaks out of the loop after every move.
alphaBetaSearchStepAlwaysCut(isMaximizing, st, score) ==
    [best |-> IF isMaximizing THEN Max(st.best, score) ELSE Min(st.best, score),
     alpha |-> st.alpha, beta |-> st.beta, cut |-> TRUE]

\* One iteration of the loop of minimaxSearchAlphaBeta: st holds bestScore,
\* alpha and beta before the iteration; cut is the break.
alphaBetaSearchStep(isMaximizing, st, score) ==
    LET newBest == IF isMaximizing THEN Max(st.best, score) ELSE Min(st.best, score)
        newAlpha == IF isMaximizing THEN Max(st.alpha, newBest) ELSE st.alpha
        newBeta == IF isMaximizing THEN st.beta ELSE Min(st.beta, newBest)
    IN  [best |-> newBest, alpha |-> newAlpha, beta |-> newBeta,
         cut |-> newBeta <= newAlpha]

RECURSIVE minimaxSearchAlphaBeta(_, _, _, _, _, _, _, _)
RECURSIVE minimaxSearchAlphaBetaLoop(_, _, _, _, _, _, _, _, _)
minimaxSearchAlphaBetaLoop(board, color, castlingRights, enPassantSquare, depth, isMaximizing, moves, i, st) ==
    IF i > Len(moves) \/ st.cut THEN st.best
    ELSE LET sim == simulateMove(board, moves[i], castlingRights, enPassantSquare)
         IN  minimaxSearchAlphaBetaLoop(
                 board, color, castlingRights, enPassantSquare, depth, isMaximizing,
                 moves, i + 1,
                 alphaBetaSearchStep(isMaximizing, st,
                     minimaxSearchAlphaBeta(sim.newBoard, color, sim.newCastling,
                                            sim.newEnPassant, depth - 1,
                                            st.alpha, st.beta, ~isMaximizing)))

minimaxSearchAlphaBeta(board, color, castlingRights, enPassantSquare, depth, alpha, beta, isMaximizing) ==
    LET opponent == IF color = WHITE THEN BLACK ELSE WHITE
        currentColor == IF isMaximizing THEN color ELSE opponent
    IN  IF isCheckmate(board, currentColor, castlingRights, enPassantSquare)
        THEN (IF isMaximizing THEN CheckmateScore ELSE -CheckmateScore)
        ELSE IF isStalemate(board, currentColor, castlingRights, enPassantSquare) THEN 0
        ELSE IF isInsufficientMaterial(board) THEN 0
        ELSE IF depth = 0 THEN evaluateBoard(board, color)
        ELSE minimaxSearchAlphaBetaLoop(
                 board, color, castlingRights, enPassantSquare, depth, isMaximizing,
                 getAllLegalMoves(board, currentColor, castlingRights, enPassantSquare),
                 1,
                 [best |-> IF isMaximizing THEN -Infinity ELSE Infinity,
                  alpha |-> alpha, beta |-> beta, cut |-> FALSE])

\* One iteration of the root loop of minimaxAlphaBeta: st holds bestMove,
\* bestValue, alpha and beta before the iteration; cut is the break.
alphaBetaStep(isMaximizing, st, move, score) ==
    LET better == (isMaximizing /\ score > st.value)
                  \/ (~isMaximizing /\ score < st.value)
        newValue == IF better THEN score ELSE st.value
        newAlpha == IF isMaximizing THEN Max(st.alpha, newValue) ELSE st.alpha
        newBeta == IF isMaximizing THEN st.beta ELSE Min(st.beta, newValue)
    IN  [move |-> IF better THEN move ELSE st.move, value |-> newValue,
         alpha |-> newAlpha, beta |-> newBeta, cut |-> newBeta <= newAlpha]

\* The root loop of minimaxAlphaBeta: each iteration searches the board it was
\* given.
RECURSIVE minimaxAlphaBetaLoop(_, _, _, _, _, _, _, _, _)
minimaxAlphaBetaLoop(board, color, castlingRights, enPassantSquare, depth, isMaximizing, moves, i, st) ==
    IF i > Len(moves) \/ st.cut THEN st.move
    ELSE minimaxAlphaBetaLoop(
             board, color, castlingRights, enPassantSquare, depth, isMaximizing,
             moves, i + 1,
             alphaBetaStep(isMaximizing, st, moves[i],
                 minimaxSearchAlphaBeta(board, color, castlingRights, enPassantSquare,
                                        depth - 1, st.alpha, st.beta, ~isMaximizing)))

minimaxAlphaBeta(board, color, castlingRights, enPassantSquare, depth, alpha, beta, isMaximizing) ==
    LET moves == getAllLegalMoves(board, color, castlingRights, enPassantSquare)
    IN  IF depth = 0 THEN NoMove
        ELSE IF Len(moves) = 0 THEN NoMove
        ELSE minimaxAlphaBetaLoop(
                 board, color, castlingRights, enPassantSquare, depth, isMaximizing,
                 moves, 1,
                 [move |-> moves[1],
                  value |-> IF isMaximizing THEN -Infinity ELSE Infinity,
                  alpha |-> alpha, beta |-> beta, cut |-> FALSE])


\* A draw from the moves of the first piece before the filter of getLegalMoves.
getRandomMoveUnfiltered(board, color, castlingRights, enPassantSquare, random) ==
    LET pieces == getPiecesOfColor(board, color)
        moves == IF Len(pieces) = 0 THEN <<>>
                 ELSE getPseudoLegalMoves(board, pieces[1].row, pieces[1].col)
    IN  IF Len(moves) = 0 THEN NoMove
        ELSE [from |-> <<pieces[1].row, pieces[1].col>>, to |-> moves[1]]

\* random is the value Math.floor(Math.random() * allMoves.length) takes.
getRandomMove(board, color, castlingRights, enPassantSquare, random) ==
    LET allMoves == getAllLegalMoves(board, color, castlingRights, enPassantSquare)
    IN  IF Len(allMoves) = 0 THEN NoMove ELSE allMoves[random + 1]

findBestMove(difficulty, board, color, castlingRights, enPassantSquare, random) ==
    IF difficulty = "easy"
    THEN getRandomMove(board, color, castlingRights, enPassantSquare, random)
    ELSE IF difficulty = "medium"
    THEN minimax(board, color, castlingRights, enPassantSquare,
                 getMaxDepth(difficulty), TRUE)
    ELSE IF difficulty = "hard"
    THEN minimaxAlphaBeta(board, color, castlingRights, enPassantSquare,
                          getMaxDepth(difficulty), -Infinity, Infinity, TRUE)
    ELSE getRandomMove(board, color, castlingRights, enPassantSquare, random)

\* The values Math.floor(Math.random() * n) can take for the list findBestMove
\* draws from (one value when the tier draws nothing).
RandomDraws(difficulty, board, color, castlingRights, enPassantSquare) ==
    IF difficulty \in {"medium", "hard"} THEN {0}
    ELSE LET n == Len(getAllLegalMoves(board, color, castlingRights, enPassantSquare))
         IN  IF n = 0 THEN {0} ELSE 0..(n - 1)

-----------------------------------------------------------------------------
(* class Board *)

BackRank == <<"R", "N", "B", "Q", "K", "B", "N", "R">>

initializeBoard ==
    [row \in 0..7 |-> [col \in 0..7 |->
        CASE row = 0 -> toLowerCase(BackRank[col + 1])
          [] row = 1 -> "p"
          [] row = 6 -> "P"
          [] row = 7 -> BackRank[col + 1]
          [] OTHER -> null]]

getPieceAt(board, row, col) ==
    IF ~isValidCoord(row, col) THEN null ELSE board[row][col]

setPieceAt(board, row, col, piece) ==
    IF isValidCoord(row, col) THEN [board EXCEPT ![row][col] = piece] ELSE board

NoLastMove == <<>>

\* Board.movePiece: the grid after the move, and the lastMove it records.
movePiece(board, fromRow, fromCol, toRow, toCol) ==
    LET piece == getPieceAt(board, fromRow, fromCol)
        captured == getPieceAt(board, toRow, toCol)
    IN  [board |-> setPieceAt(setPieceAt(board, toRow, toCol, piece),
                              fromRow, fromCol, null),
         lastMove |-> <<[from |-> <<fromRow, fromCol>>, to |-> <<toRow, toCol>>,
                         piece |-> piece, captured |-> captured]>>]

-----------------------------------------------------------------------------
(* js/utils.js: class ChessGame.  A game value g holds the fields of the    *)
(* object; g.board and g.lastMove are the two fields of its Board, g.timers *)
(* the number of makeAIMove callbacks that setTimeout has scheduled and the *)
(* browser has not run yet.                                                 *)

InitialCastlingRights ==
    [whiteKingside |-> TRUE, whiteQueenside |-> TRUE,
     blackKingside |-> TRUE, blackQueenside |-> TRUE]

NoPromotion == <<>>

\* new ChessGame(): the constructor's state.
NewGame ==
    [board |-> initializeBoard,
     lastMove |-> NoLastMove,
     currentTurn |-> WHITE,
     selectedSquare |-> NoSquare,
     aiDifficulty |-> "easy",
     castlingRights |-> InitialCastlingRights,
     enPassantSquare |-> NoSquare,
     moveHistory |-> <<>>,
     capturedPieces |-> [white |-> <<>>, black |-> <<>>],
     gameOver |-> FALSE,
     gameOverReason |-> null,
     promotionPending |-> NoPromotion,
     aiThinking |-> FALSE,
     timers |-> 0]

endGame(g, reason) ==
    [g EXCEPT !.gameOver = TRUE,
              !.gameOverReason = IF reason = null THEN "Game ended" ELSE reason,
              !.aiThinking = FALSE]

checkGameEnd(g) ==
    LET opponent == IF g.currentTurn = WHITE THEN BLACK ELSE WHITE
    IN  IF isCheckmate(g.board, g.currentTurn, g.castlingRights, g.enPassantSquare)
        THEN endGame(g, IF opponent = WHITE THEN "Checkmate! White wins!"
                        ELSE "Checkmate! Black wins!")
        ELSE IF isStalemate(g.board, g.currentTurn, g.castlingRights, g.enPassantSquare)
        THEN endGame(g, "Stalemate! Draw!")
        ELSE IF isInsufficientMaterial(g.board)
        THEN endGame(g, "Insufficient material. Draw!")
        ELSE g

\* updateUI writes the page and then checks for the end of the game.
\* The game is bound once, as a value, before it is checked.
updateUI(g) == CHOOSE shown \in {checkGameEnd(page) : page \in {g}} : TRUE

reset(g) ==
    updateUI([g EXCEPT !.board = initializeBoard,
                       !.lastMove = NoLastMove,
                       !.currentTurn = WHITE,
                       !.selectedSquare = NoSquare,
                       !.castlingRights = InitialCastlingRights,
                       !.enPassantSquare = NoSquare,
                       !.moveHistory = <<>>,
                       !.capturedPieces = [white |-> <<>>, black |-> <<>>],
                       !.gameOver = FALSE,
                       !.gameOverReason = null,
                       !.promotionPending = NoPromotion,
                       !.aiThinking = FALSE])

setDifficulty(g, level) ==
    LET set == [g EXCEPT !.aiDifficulty = level]
    IN  IF Len(g.moveHistory) > 0 THEN reset(set) ELSE set

\* The tail of makeMove and of handlePromotion: the turn passes, the page is
\* updated, and the computer's move is scheduled when it is black's turn.
switchTurnWithoutCallback(g) ==
    updateUI([g EXCEPT !.currentTurn = IF g.currentTurn = WHITE THEN BLACK ELSE WHITE,
                       !.selectedSquare = NoSquare])

switchTurn(g) ==
    CHOOSE scheduled \in
        { IF switched.currentTurn = BLACK /\ ~switched.gameOver
          THEN [switched EXCEPT !.aiThinking = TRUE, !.timers = @ + 1]
          ELSE switched :
          switched \in {updateUI([g EXCEPT
                            !.currentTurn = IF g.currentTurn = WHITE THEN BLACK ELSE WHITE,
                            !.selectedSquare = NoSquare])} } : TRUE

\* The first part of makeMove, up to the record in the move history: the
\* board, the captured pieces, the castling rights and the en-passant target
\* after the move.
applyMove(g, fromRow, fromCol, toRow, toCol) ==
    LET piece == getPieceAt(g.board, fromRow, fromCol)
        captured == getPieceAt(g.board, toRow, toCol)
        enPassant == isEnPassantMove(fromRow, toRow, toCol, g.board, piece,
                                     g.enPassantSquare)
        capturedEP == getPieceAt(g.board, fromRow, toCol)
        taken == IF enPassant THEN capturedEP ELSE captured
        capturedPieces ==
            IF enPassant \/ captured # null
            THEN IF getPieceColor(taken) = WHITE
                 THEN [g.capturedPieces EXCEPT !.white = Append(@, getPieceType(taken))]
                 ELSE [g.capturedPieces EXCEPT !.black = Append(@, getPieceType(taken))]
            ELSE g.capturedPieces
        afterEP == IF enPassant THEN setPieceAt(g.board, fromRow, toCol, null)
                   ELSE g.board
        afterCastle ==
            IF isCastlingMove(fromRow, fromCol, toRow, toCol, piece)
            THEN IF toCol > fromCol
                 THEN setPieceAt(setPieceAt(afterEP, fromRow, 5,
                                            getPieceAt(afterEP, fromRow, 7)),
                                 fromRow, 7, null)
                 ELSE setPieceAt(setPieceAt(afterEP, fromRow, 3,
                                            getPieceAt(afterEP, fromRow, 0)),
                                 fromRow, 0, null)
            ELSE afterEP
        moved == movePiece(afterCastle, fromRow, fromCol, toRow, toCol)
        rights == clearCapturedRookRights(
                      updateCastlingRights(g.castlingRights, fromRow, fromCol, piece),
                      captured, toRow, toCol)
        moveNotation == <<coordsToNotation(fromRow, fromCol),
                          coordsToNotation(toRow, toCol)>>
    IN  [g EXCEPT !.board = moved.board,
                  !.lastMove = moved.lastMove,
                  !.capturedPieces = capturedPieces,
                  !.castlingRights = rights,
                  !.enPassantSquare =
                      updateEnPassantSquare(fromRow, toRow, toCol, piece),
                  !.moveHistory = Append(@, moveNotation)]

\* The end of makeMove: a promotion waits for the choice of a piece, any
\* other move passes the turn.
finishMove(g, recorded, isPromotion, toRow, toCol, piece) ==
    IF isPromotion
    THEN updateUI([recorded EXCEPT !.promotionPending = <<toRow, toCol, piece>>,
                                   !.selectedSquare = NoSquare])
    ELSE switchTurn(recorded)

makeMove(g, fromRow, fromCol, toRow, toCol) ==
    finishMove(g, applyMove(g, fromRow, fromCol, toRow, toCol),
               isPromotionMove(g.board, fromRow, toRow,
                               getPieceAt(g.board, fromRow, fromCol)),
               toRow, toCol, getPieceAt(g.board, fromRow, fromCol))

handlePromotion(g, piece) ==
    IF g.promotionPending = NoPromotion THEN g
    ELSE LET row == g.promotionPending[1]
             col == g.promotionPending[2]
             pawnPiece == g.promotionPending[3]
             newPiece == createPiece(piece, getPieceColor(pawnPiece))
             promoted == [g EXCEPT !.board = setPieceAt(g.board, row, col, newPiece),
                                   !.promotionPending = NoPromotion,
                                   !.currentTurn =
                                       IF g.currentTurn = WHITE THEN BLACK ELSE WHITE]
             shown == updateUI(promoted)
         IN  IF shown.currentTurn = BLACK /\ ~shown.gameOver
             THEN [shown EXCEPT !.aiThinking = TRUE, !.timers = @ + 1]
             ELSE shown

tryMove(g, fromRow, fromCol, toRow, toCol) ==
    LET piece == getPieceAt(g.board, fromRow, fromCol)
    IN  IF piece = null THEN [g EXCEPT !.selectedSquare = NoSquare]
        ELSE IF ~isMoveLegal(g.board, fromRow, fromCol, toRow, toCol, g.currentTurn,
                             g.castlingRights, g.enPassantSquare)
        THEN [g EXCEPT !.selectedSquare = NoSquare]
        ELSE makeMove(g, fromRow, fromCol, toRow, toCol)

handleSquareClickAnyTurn(g, row, col) ==
    LET piece == getPieceAt(g.board, row, col)
    IN  IF piece # null /\ getPieceColor(piece) = g.currentTurn
        THEN [g EXCEPT !.selectedSquare = <<row, col>>]
        ELSE IF g.selectedSquare # NoSquare
        THEN tryMove(g, g.selectedSquare[1], g.selectedSquare[2], row, col)
        ELSE g

handleSquareClick(g, row, col) ==
    LET piece == getPieceAt(g.board, row, col)
    IN  IF g.gameOver \/ g.aiThinking \/ g.promotionPending # NoPromotion THEN g
        ELSE IF g.currentTurn = BLACK THEN g
        ELSE IF piece # null /\ getPieceColor(piece) = g.currentTurn
        THEN [g EXCEPT !.selectedSquare = <<row, col>>]
        ELSE IF g.selectedSquare # NoSquare
        THEN tryMove(g, g.selectedSquare[1], g.selectedSquare[2], row, col)
        ELSE g

\* makeAIMove, run by the browser when a timer expires; random is the draw of
\* Math.random in getRandomMove, and playAIMove what makeAIMove does with the
\* move that findBestMove returned.
playAIMove(g, move) ==
    IF move = NoMove THEN endGame(g, null)
    ELSE [makeMove(g, move.from[1], move.from[2], move.to[1], move.to[2])
            EXCEPT !.aiThinking = FALSE]

makeAIMove(g, random) ==
    CHOOSE played \in
        { playAIMove(g, move) :
          move \in {findBestMove(g.aiDifficulty, g.board, BLACK, g.castlingRights,
                                 g.enPassantSquare, random)} } : TRUE

-----------------------------------------------------------------------------
(* The game controller as a state machine.  The user clicks squares, picks  *)
(* a promotion piece, presses reset or a difficulty button; the browser     *)
(* runs a scheduled makeAIMove.                                             *)

\* One recorded move <<fromRow, fromCol, toRow, toCol>> played on the page:
\* White's by two clicks, Black's by the computer's callback drawing it (when
\* a callback is pending and the move is one it can draw).  The empty record
\* is a press of the reset button.
PlayMove(g, m) ==
    IF m = <<>> THEN reset(g)
    ELSE IF g.currentTurn = WHITE /\ ~g.aiThinking
    THEN handleSquareClick(handleSquareClick(g, m[1], m[2]), m[3], m[4])
    ELSE LET all == getAllLegalMoves(g.board, BLACK, g.castlingRights,
                                     g.enPassantSquare)
             draws == {i \in 1..Len(all) :
                         all[i] = [from |-> <<m[1], m[2]>>, to |-> <<m[3], m[4]>>]}
         IN  IF draws = {} \/ g.timers = 0 THEN g
             ELSE makeAIMove([g EXCEPT !.timers = @ - 1],
                             (CHOOSE i \in draws : TRUE) - 1)

RECURSIVE PlayGame(_, _, _)
PlayGame(g, moves, i) ==
    IF i > Len(moves) THEN g ELSE PlayGame(PlayMove(g, moves[i]), moves, i + 1)

\* Games played from the constructor's state on the easy tier; each ends with
\* White to move.  The comment gives the moves in files and ranks.

\* e2e4 a7a6 e4e5 d7d5
GameEnPassant ==
    << <<6, 4, 4, 4>>, <<1, 0, 2, 0>>, <<4, 4, 3, 4>>, <<1, 3, 3, 3>> >>

\* d2d4 e7e5 e2e4 e5d4 e4e5 d8e7 a2a3 d7d5
GamePinnedEnPassant ==
    << <<6, 3, 4, 3>>, <<1, 4, 3, 4>>, <<6, 4, 4, 4>>, <<3, 4, 4, 3>>,
       <<4, 4, 3, 4>>, <<0, 3, 1, 4>>, <<6, 0, 5, 0>>, <<1, 3, 3, 3>> >>

\* a2a3 d7d5 a3a4 d5d4
GameBlackEnPassant ==
    << <<6, 0, 5, 0>>, <<1, 3, 3, 3>>, <<5, 0, 4, 0>>, <<3, 3, 4, 3>> >>

\* e2e4 e7e5 g1f3 g8f6 f1c4 f8c5
GameCastling ==
    << <<6, 4, 4, 4>>, <<1, 4, 3, 4>>, <<7, 6, 5, 5>>, <<0, 6, 2, 5>>,
       <<7, 5, 4, 2>>, <<0, 5, 3, 2>> >>

\* g2g3 b7b5 f1g2 h7h6
GameRookCapture ==
    << <<6, 6, 5, 6>>, <<1, 1, 3, 1>>, <<7, 5, 6, 6>>, <<1, 7, 2, 7>> >>

\* g2g4 b7b6 a2a3 c8b7
GameBlackRookCapture ==
    << <<6, 6, 4, 6>>, <<1, 1, 2, 1>>, <<6, 0, 5, 0>>, <<0, 2, 1, 1>> >>

\* h2h4 g7g5 h4g5 h7h6 g5h6 a7a6 h6h7 a6a5
GamePromotion ==
    << <<6, 7, 4, 7>>, <<1, 6, 3, 6>>, <<4, 7, 3, 6>>, <<1, 7, 2, 7>>,
       <<3, 6, 2, 7>>, <<1, 0, 2, 0>>, <<2, 7, 1, 7>>, <<2, 0, 3, 0>> >>

\* a2a3 h7h5 g2g4 h5g4 h2h3 g4h3 a3a4 h3h2
GameBlackPromotion ==
    << <<6, 0, 5, 0>>, <<1, 7, 3, 7>>, <<6, 6, 4, 6>>, <<3, 7, 4, 6>>,
       <<6, 7, 5, 7>>, <<4, 6, 5, 7>>, <<5, 0, 4, 0>>, <<5, 7, 6, 7>> >>

\* f2f3 e7e5
GameFoolsMate ==
    << <<6, 5, 5, 5>>, <<1, 4, 3, 4>> >>

\* e2e4 e7e5 d1h5 b8c6 f1c4 g8f6
GameScholarsMate ==
    << <<6, 4, 4, 4>>, <<1, 4, 3, 4>>, <<7, 3, 3, 7>>, <<0, 1, 2, 2>>,
       <<7, 5, 4, 2>>, <<0, 6, 2, 5>> >>

\* e2e4 e7e5 f2f4 d8h4
GameCheck ==
    << <<6, 4, 4, 4>>, <<1, 4, 3, 4>>, <<6, 5, 4, 5>>, <<0, 3, 4, 7>> >>

\* e2e3 a7a5 d1h5 a8a6 h5a5 h7h5 h2h4 a6h6 a5c7 f7f6 c7d7 e8f7 d7b7 d8d3
\* b7b8 d3h7 b8c8 f7g6
GameStalemate ==
    << <<6, 4, 5, 4>>, <<1, 0, 3, 0>>, <<7, 3, 3, 7>>, <<0, 0, 2, 0>>,
       <<3, 7, 3, 0>>, <<1, 7, 3, 7>>, <<6, 7, 4, 7>>, <<2, 0, 2, 7>>,
       <<3, 0, 1, 2>>, <<1, 5, 2, 5>>, <<1, 2, 1, 3>>, <<0, 4, 1, 5>>,
       <<1, 3, 1, 1>>, <<0, 3, 5, 3>>, <<1, 1, 0, 1>>, <<5, 3, 1, 7>>,
       <<0, 1, 0, 2>>, <<1, 5, 2, 6>> >>

\* e2e4 e7e5 g1f3 b8c6 f1c4 f8c5 d2d4 c5b4: White is in check from the
\* bishop on b4, with f1 and g1 empty and both rights.
GameCastleInCheck ==
    << <<6, 4, 4, 4>>, <<1, 4, 3, 4>>, <<7, 6, 5, 5>>, <<0, 1, 2, 2>>,
       <<7, 5, 4, 2>>, <<0, 5, 3, 2>>, <<6, 3, 4, 3>>, <<3, 2, 4, 1>> >>

\* d2d4 d7d5 b1c3 b8c6 c1f4 c8f5 d1d2 d8d7: both sides may castle queenside.
GameQueensideCastling ==
    << <<6, 3, 4, 3>>, <<1, 3, 3, 3>>, <<7, 1, 5, 2>>, <<0, 1, 2, 2>>,
       <<7, 2, 4, 5>>, <<0, 2, 3, 5>>, <<7, 3, 6, 3>>, <<0, 3, 1, 3>> >>

\* a2a3, then reset before the callback that move scheduled has run: the
\* callback stays in the timer queue while the moves of GamePromotion are
\* played in the new game.
GameAbandoned == << <<6, 0, 5, 0>>, <<>> >> \o GamePromotion

\* a2a3 and reset as in GameAbandoned, then the moves of GameCheck: White is
\* in check from the queen on h4 while the callback of a2a3 is in the queue.
GameAbandonedCheck == << <<6, 0, 5, 0>>, <<>> >> \o GameCheck

\* a2a3 and reset as in GameAbandoned, then f2f3 e7e5 g2g4 d8h4: White is
\* checkmated and the game is over while the callback of a2a3 is in the queue.
GameAbandonedMate ==
    << <<6, 0, 5, 0>>, <<>>, <<6, 5, 5, 5>>, <<1, 4, 3, 4>>, <<6, 6, 4, 6>>,
       <<0, 3, 4, 7>> >>

Games ==
    { <<>>, GameAbandoned, GameAbandonedCheck, GameAbandonedMate, GameCastleInCheck, GameQueensideCastling, GameEnPassant, GamePinnedEnPassant, GameBlackEnPassant, GameCastling,
      GameRookCapture, GameBlackRookCapture, GamePromotion, GameBlackPromotion,
      GameFoolsMate, GameScholarsMate, GameCheck, GameStalemate }

\* The squares the user clicks.
ClickSquares ==
    { <<6, 4>>, <<4, 4>>, <<3, 4>>, <<2, 3>>, <<7, 4>>, <<7, 6>>, <<7, 7>>,
      <<6, 6>>, <<0, 0>>, <<1, 7>>, <<0, 6>>, <<4, 6>>, <<3, 7>>, <<1, 5>>,
      <<0, 2>>, <<2, 4>>, <<7, 2>> }

\* The difficulty buttons the user presses.
Levels == {"easy"}

PromotionChoices == {"Q", "R", "B", "N"}

\* The user makes at most MaxUserMoves moves.
MaxUserMoves == 1

\* The browser runs at most MaxCallbacks makeAIMove callbacks.
MaxCallbacks == 1

NoNode == <<>>

Init ==
    /\ game \in {PlayGame(NewGame, moves, 1) : moves \in Games}
    /\ applied = 0
    /\ fired = 0
    /\ node = NoNode
    /\ result = <<>>

HandleSquareClick(row, col) ==
    /\ applied < MaxUserMoves
    /\ game' = handleSquareClick(game, row, col)
    /\ applied' = IF game'.moveHistory # game.moveHistory THEN applied + 1 ELSE applied
    /\ UNCHANGED <<fired, node, result>>

HandlePromotion(piece) ==
    /\ game' = handlePromotion(game, piece)
    /\ UNCHANGED <<applied, fired, node, result>>

Reset ==
    /\ game' = reset(game)
    /\ UNCHANGED <<applied, fired, node, result>>

SetDifficulty(level) ==
    /\ game' = setDifficulty(game, level)
    /\ UNCHANGED <<applied, fired, node, result>>

\* A timer expires and the browser runs makeAIMove.
MakeAIMove ==
    /\ game.timers > 0
    /\ fired < MaxCallbacks
    /\ \E random \in RandomDraws(game.aiDifficulty, game.board, BLACK,
                                 game.castlingRights, game.enPassantSquare) :
           game' = makeAIMove([game EXCEPT !.timers = @ - 1], random)
    /\ fired' = fired + 1
    /\ UNCHANGED <<applied, node, result>>

Next ==
    \/ \E s \in ClickSquares : HandleSquareClick(s[1], s[2])
    \/ \E piece \in PromotionChoices : HandlePromotion(piece)
    \/ Reset
    \/ \E level \in Levels : SetDifficulty(level)
    \/ MakeAIMove

Spec == Init /\ [][Next]_vars

-----------------------------------------------------------------------------
(* The search engine on its own.  A node is a position the engine is given: *)
(* the board, the castling rights, the en-passant target, the side to move  *)
(* and the number of moves simulateMove has made since the root.  The       *)
(* engine is asked one question of a node, and the answer is kept in result. *)

EmptyBoard == [row \in 0..7 |-> [col \in 0..7 |-> null]]

\* The board that holds the pieces <<row, col, piece>>.
BoardOf(pieces) ==
    [row \in 0..7 |-> [col \in 0..7 |->
        IF \E p \in pieces : p[1] = row /\ p[2] = col
        THEN (CHOOSE p \in pieces : p[1] = row /\ p[2] = col)[3]
        ELSE null]]

NoCastlingRights ==
    [whiteKingside |-> FALSE, whiteQueenside |-> FALSE,
     blackKingside |-> FALSE, blackQueenside |-> FALSE]

\* Black to move, in check from the pawn on b7, which the king can take:
\* Ka8, pawn h7 against Kh1, pawns b7 and h6.
RootCapture ==
    [board |-> BoardOf({<<0, 0, "k">>, <<1, 7, "p">>,
                        <<1, 1, "P">>, <<2, 7, "P">>, <<7, 7, "K">>}),
     castlingRights |-> NoCastlingRights, enPassantSquare |-> NoSquare,
     color |-> BLACK, ply |-> 0]

\* Black to move and stalemated: Ka8 against Ka6 and the pawn on a7.
RootStalemate ==
    [board |-> BoardOf({<<0, 0, "k">>, <<1, 0, "P">>, <<2, 0, "K">>}),
     castlingRights |-> NoCastlingRights, enPassantSquare |-> NoSquare,
     color |-> BLACK, ply |-> 0]

\* Black to move and checkmated: Ka8 against Qb7 and Kb6.
RootCheckmate ==
    [board |-> BoardOf({<<0, 0, "k">>, <<1, 1, "Q">>, <<2, 1, "K">>}),
     castlingRights |-> NoCastlingRights, enPassantSquare |-> NoSquare,
     color |-> BLACK, ply |-> 0]

SearchRoots == {RootCapture, RootStalemate, RootCheckmate}

Difficulties == {"easy", "medium", "hard"}

\* simulateMove makes at most MaxPly moves from a root.
MaxPly == 2

\* The searches are run to the depths 0..MaxSearchDepth.
MaxSearchDepth == 3

InitSearch ==
    /\ game = NewGame
    /\ applied = 0
    /\ fired = 0
    /\ node \in SearchRoots
    /\ result = <<>>

\* The engine simulates a legal move of the side to move.
Advance ==
    /\ result = <<>>
    /\ node.ply < MaxPly
    /\ \E move \in {getAllLegalMoves(node.board, node.color, node.castlingRights,
                                      node.enPassantSquare)[i] :
                       i \in 1..Len(getAllLegalMoves(node.board, node.color,
                                                     node.castlingRights,
                                                     node.enPassantSquare))} :
          LET sim == simulateMove(node.board, move, node.castlingRights,
                                  node.enPassantSquare)
          IN  node' = [board |-> sim.newBoard, castlingRights |-> sim.newCastling,
                       enPassantSquare |-> sim.newEnPassant,
                       color |-> Other(node.color), ply |-> node.ply + 1]
    /\ result' = <<>>
    /\ UNCHANGED <<game, applied, fired>>

\* Both searches are run on the node with the same arguments.
RunSearch(color, depth, isMaximizing) ==
    /\ result = <<>>
    /\ result' = [kind |-> "search", color |-> color, depth |-> depth,
                  isMaximizing |-> isMaximizing,
                  plain |-> minimaxSearch(node.board, color, node.castlingRights,
                                          node.enPassantSquare, depth, isMaximizing),
                  pruned |-> minimaxSearchAlphaBeta(node.board, color,
                                                    node.castlingRights,
                                                    node.enPassantSquare, depth,
                                                    -Infinity, Infinity, isMaximizing)]
    /\ UNCHANGED <<game, applied, fired, node>>

\* findBestMove is asked for a move of the side to move.
FindBestMove(difficulty) ==
    /\ result = <<>>
    /\ \E random \in RandomDraws(difficulty, node.board, node.color,
                                  node.castlingRights, node.enPassantSquare) :
          result' = [kind |-> "best", difficulty |-> difficulty,
                     move |-> findBestMove(difficulty, node.board, node.color,
                                           node.castlingRights,
                                           node.enPassantSquare, random)]
    /\ UNCHANGED <<game, applied, fired, node>>

NextSearch ==
    \/ Advance
    \/ \E color \in {WHITE, BLACK}, depth \in 0..MaxSearchDepth,
          isMaximizing \in BOOLEAN : RunSearch(color, depth, isMaximizing)
    \/ \E difficulty \in Difficulties : FindBestMove(difficulty)

SpecSearch == InitSearch /\ [][NextSearch]_vars

-----------------------------------------------------------------------------
(* Properties of the rules, checked on the positions of the games.          *)

Colors == {WHITE, BLACK}

\* The pieces of a color have no legal move: getLegalMoves is empty on every
\* square that holds one.
NoLegalMoves(board, color, castlingRights, enPassantSquare) ==
    \A row \in 0..7, col \in 0..7 :
        (board[row][col] # null /\ getPieceColor(board[row][col]) = color)
        => getLegalMoves(board, row, col, castlingRights, enPassantSquare, color) = <<>>

\* C1: every destination getLegalMoves returns for a piece of the side to
\* move, once makeMove has applied the move (en-passant removal and castling
\* rook included), leaves that side's king unattacked.
C1_SelfCheckSafety ==
    \A row \in 0..7, col \in 0..7 :
        LET legal == getLegalMoves(game.board, row, col, game.castlingRights,
                                   game.enPassantSquare, game.currentTurn)
        IN  \A j \in 1..Len(legal) :
                ~isInCheck(applyMove(game, row, col, legal[j][1], legal[j][2]).board,
                           game.currentTurn)

\* C1 at work: the side to move is in check, the filter has rejected a
\* destination of one of its pieces and has kept a destination.
C1_Witness ==
    /\ isInCheck(game.board, game.currentTurn)
    /\ \E row \in 0..7, col \in 0..7 :
          /\ game.board[row][col] # null
          /\ getPieceColor(game.board[row][col]) = game.currentTurn
          /\ \E j \in 1..Len(getPseudoLegalMoves(game.board, row, col)) :
                LET to == getPseudoLegalMoves(game.board, row, col)[j]
                IN  ~Contains(getLegalMoves(game.board, row, col,
                                            game.castlingRights,
                                            game.enPassantSquare, game.currentTurn),
                              to[1], to[2])
    /\ ~NoLegalMoves(game.board, game.currentTurn, game.castlingRights,
                     game.enPassantSquare)

\* C2: isCheckmate is true exactly when the color is in check and
\* getLegalMoves is empty for every one of its pieces.
C2_CheckmateDefinition ==
    \A color \in Colors :
        isCheckmate(game.board, color, game.castlingRights, game.enPassantSquare)
        <=> (/\ isInCheck(game.board, color)
             /\ NoLegalMoves(game.board, color, game.castlingRights,
                             game.enPassantSquare))

\* C2 at work: a game that ended in checkmate.
C2_Witness ==
    /\ game.gameOver
    /\ isCheckmate(game.board, game.currentTurn, game.castlingRights,
                   game.enPassantSquare)

\* C3: isStalemate is true exactly when the color is not in check and
\* getLegalMoves is empty for every one of its pieces.
C3_StalemateDefinition ==
    \A color \in Colors :
        isStalemate(game.board, color, game.castlingRights, game.enPassantSquare)
        <=> (/\ ~isInCheck(game.board, color)
             /\ NoLegalMoves(game.board, color, game.castlingRights,
                             game.enPassantSquare))

\* C3 at work: a game that ended in stalemate.
C3_Witness ==
    /\ game.gameOver
    /\ isStalemate(game.board, game.currentTurn, game.castlingRights,
                   game.enPassantSquare)

-----------------------------------------------------------------------------
(* Properties of the moves applied in a game.  A step applies a move when   *)
(* it adds a record to the move history; the move is the one the board has  *)
(* recorded as its last.                                                    *)

MoveApplied == Len(game'.moveHistory) = Len(game.moveHistory) + 1

NewGameStarted == game'.moveHistory = <<>> /\ game.moveHistory # <<>>

AppliedMove == game'.lastMove[1]

CastlingSides == {"whiteKingside", "whiteQueenside", "blackKingside", "blackQueenside"}

SideColor(side) ==
    IF side \in {"whiteKingside", "whiteQueenside"} THEN WHITE ELSE BLACK

\* The home corner of the rook of a castling side.
HomeCorner(side) ==
    CASE side = "whiteKingside" -> <<7, 7>>
      [] side = "whiteQueenside" -> <<7, 0>>
      [] side = "blackKingside" -> <<0, 7>>
      [] side = "blackQueenside" -> <<0, 0>>

\* C7: no castling right changes from false to true when makeMove applies a
\* move, nor in what simulateMove makes of the same move; the rights are
\* fresh again only when a new game starts.
C7_RightsMonotone ==
    [][\/ NewGameStarted
       \/ /\ \A side \in CastlingSides :
                game'.castlingRights[side] => game.castlingRights[side]
          /\ MoveApplied =>
                \A side \in CastlingSides :
                    simulateMove(game.board,
                                 [from |-> AppliedMove.from, to |-> AppliedMove.to],
                                 game.castlingRights,
                                 game.enPassantSquare).newCastling[side]
                    => game.castlingRights[side]]_vars

\* C7 at work: White has lost a castling right and Black has moved since.
C7_Witness ==
    /\ applied > 0
    /\ ~game.castlingRights.whiteKingside
    /\ game.lastMove # NoLastMove
    /\ getPieceColor(game.lastMove[1].piece) = BLACK

\* The move makes the side lose its right: the king of the color moved, its
\* rook left the home corner, or its rook was captured on the home corner.
LosesRight(side, move) ==
    \/ move.piece = createPiece("K", SideColor(side))
    \/ move.piece = createPiece("R", SideColor(side)) /\ move.from = HomeCorner(side)
    \/ move.captured = createPiece("R", SideColor(side)) /\ move.to = HomeCorner(side)

\* C8: a castling right that is true before an applied move is false after
\* it exactly when the move moved the king of that color, moved its rook from
\* the home corner or captured its rook on the home corner; any other move
\* leaves the right as it was.
C8_RightLostIff ==
    [][MoveApplied =>
          \A side \in CastlingSides :
              IF game.castlingRights[side]
              THEN game'.castlingRights[side] <=> ~LosesRight(side, AppliedMove)
              ELSE ~game'.castlingRights[side]]_vars

\* C8 at work: the rook on a8 has been captured; Black has lost the
\* queenside right and kept the kingside right.
C8_Witness ==
    /\ applied > 0
    /\ game.lastMove # NoLastMove
    /\ game.lastMove[1].captured = "r"
    /\ game.lastMove[1].to = <<0, 0>>
    /\ ~game.castlingRights.blackQueenside
    /\ game.castlingRights.blackKingside

\* C9: after an applied move the en-passant target is the square skipped by
\* a pawn that advanced two rows, and none after any other move, whatever
\* the target was before.
C9_EnPassantWindow ==
    [][MoveApplied =>
          game'.enPassantSquare =
              IF /\ getPieceType(AppliedMove.piece) = "P"
                 /\ Abs(AppliedMove.to[1] - AppliedMove.from[1]) = 2
              THEN <<(AppliedMove.from[1] + AppliedMove.to[1]) \div 2,
                     AppliedMove.to[2]>>
              ELSE NoSquare]_vars

\* C9 at work: the black pawn on d5 came from d7 on the move before the
\* last, and the target it set is gone.
C9_Witness ==
    /\ applied > 0
    /\ Len(game.moveHistory) >= 2
    /\ game.moveHistory[Len(game.moveHistory) - 1] = << <<"d", 7>>, <<"d", 5>> >>
    /\ game.board[3][3] = "p"
    /\ game.enPassantSquare = NoSquare

\* C10: a pawn of the side to move that stands one row behind the target
\* and one column beside it has the target as a legal destination exactly
\* when the capture does not leave its own king attacked; makeMove then puts
\* the pawn on the target, empties its origin and the square of the enemy
\* pawn beside it, and changes no other square.
C10_EnPassantCapture ==
    game.enPassantSquare # NoSquare =>
        LET target == game.enPassantSquare
            color == game.currentTurn
            row == target[1] - (IF color = WHITE THEN -1 ELSE 1)
        IN  \A col \in {target[2] - 1, target[2] + 1} \cap 0..7 :
                game.board[row][col] = createPiece("P", color) =>
                    LET captured == [game.board EXCEPT
                                       ![target[1]][target[2]] = createPiece("P", color),
                                       ![row][col] = null,
                                       ![row][target[2]] = null]
                        legal == Contains(getLegalMoves(game.board, row, col,
                                                        game.castlingRights, target,
                                                        color),
                                          target[1], target[2])
                    IN  /\ legal <=> ~isInCheck(captured, color)
                        /\ legal => makeMove(game, row, col, target[1],
                                             target[2]).board = captured

\* C10 at work: a pawn has moved to another column onto an empty square,
\* and the enemy pawn it passed is off the board.
C10_Witness ==
    /\ applied > 0
    /\ game.lastMove # NoLastMove
    /\ getPieceType(game.lastMove[1].piece) = "P"
    /\ game.lastMove[1].from[2] # game.lastMove[1].to[2]
    /\ game.lastMove[1].captured = null
    /\ game.board[game.lastMove[1].from[1]][game.lastMove[1].to[2]] = null

-----------------------------------------------------------------------------
(* Properties of the search engine, checked on the answers it gives.        *)

SearchAnswer == result # <<>> /\ result.kind = "search"

BestMoveAnswer == result # <<>> /\ result.kind = "best"

\* C4: with alpha = -Infinity and beta = Infinity, minimaxSearchAlphaBeta
\* returns the score minimaxSearch returns on the same arguments.
C4_AlphaBetaEquivalence ==
    SearchAnswer => result.pruned = result.plain

\* C4 at work: a search of depth 2 in which the first reply to the second
\* root move scores no more than the first root move, so that the loop over
\* the replies breaks with replies left.
C4_Witness ==
    /\ SearchAnswer
    /\ result.depth = 2
    /\ result.isMaximizing
    /\ result.pruned = result.plain
    /\ LET moves == getAllLegalMoves(node.board, result.color, node.castlingRights,
                                     node.enPassantSquare)
           first == simulateMove(node.board, moves[1], node.castlingRights,
                                 node.enPassantSquare)
           second == simulateMove(node.board, moves[2], node.castlingRights,
                                  node.enPassantSquare)
           replies == getAllLegalMoves(second.newBoard, Other(result.color),
                                       second.newCastling, second.newEnPassant)
           reply == simulateMove(second.newBoard, replies[1], second.newCastling,
                                 second.newEnPassant)
       IN  /\ Len(moves) >= 2
           /\ ~isInsufficientMaterial(node.board)
           /\ Len(replies) >= 2
           /\ ~isInsufficientMaterial(second.newBoard)
           /\ minimaxSearch(reply.newBoard, result.color, reply.newCastling,
                            reply.newEnPassant, 0, TRUE)
              <= minimaxSearch(first.newBoard, result.color, first.newCastling,
                               first.newEnPassant, 1, FALSE)

\* The score of a root move: the position simulateMove makes of it, searched
\* one ply shallower than the tier's depth with the roles swapped.
RootScore(difficulty, move) ==
    LET sim == simulateMove(node.board, move, node.castlingRights,
                            node.enPassantSquare)
    IN  IF difficulty = "hard"
        THEN minimaxSearchAlphaBeta(sim.newBoard, node.color, sim.newCastling,
                                    sim.newEnPassant, getMaxDepth(difficulty) - 1,
                                    -Infinity, Infinity, FALSE)
        ELSE minimaxSearch(sim.newBoard, node.color, sim.newCastling,
                           sim.newEnPassant, getMaxDepth(difficulty) - 1, FALSE)

\* C5: the move the minimax tier and the alpha-beta tier return leads to a
\* position whose score no other legal root move's position exceeds.
C5_RootReturnsBestMove ==
    (BestMoveAnswer /\ result.difficulty \in {"medium", "hard"}
                    /\ result.move # NoMove)
    => LET moves == getAllLegalMoves(node.board, node.color, node.castlingRights,
                                     node.enPassantSquare)
       IN  \A i \in 1..Len(moves) :
               RootScore(result.difficulty, moves[i])
               <= RootScore(result.difficulty, result.move)

\* C6: findBestMove returns no move exactly when the color has no legal
\* move, and otherwise a move of getAllLegalMoves.
C6_FindBestMoveIsLegal ==
    BestMoveAnswer
    => LET moves == getAllLegalMoves(node.board, node.color, node.castlingRights,
                                     node.enPassantSquare)
       IN  /\ result.move = NoMove <=> Len(moves) = 0
           /\ result.move # NoMove => \E i \in 1..Len(moves) : moves[i] = result.move

\* C6 at work: the three tiers have answered, one with a move and one with
\* none, the side to move having no legal move.
C6_Witness ==
    /\ BestMoveAnswer
    /\ result.difficulty = "hard"
    /\ result.move = NoMove
    /\ ~isInsufficientMaterial(node.board)

-----------------------------------------------------------------------------
(* Properties of castling and promotion in a game.                           *)

\* The move is a castle: a king leaves column 4 of its home row for column 6
\* or column 2.
IsCastle(move) ==
    /\ getPieceType(move.piece) = "K"
    /\ move.from[2] = 4
    /\ move.from[1] = (IF getPieceColor(move.piece) = WHITE THEN 7 ELSE 0)
    /\ move.to[1] = move.from[1]
    /\ Abs(move.to[2] - move.from[2]) = 2

\* The king of the castle would be attacked on column col of its row.
KingAttackedOn(board, move, col) ==
    isInCheck([board EXCEPT ![move.from[1]][4] = null, ![move.from[1]][col] = move.piece],
              getPieceColor(move.piece))

\* C12: every castle the game applies is one the FIDE rules allow: the king
\* is not in check before it, and the square it crosses is not attacked by
\* the opponent.
C12_CastleObeysFIDE ==
    [][(MoveApplied /\ IsCastle(AppliedMove)) =>
          /\ ~isInCheck(game.board, getPieceColor(AppliedMove.piece))
          /\ ~KingAttackedOn(game.board, AppliedMove,
                             (AppliedMove.from[2] + AppliedMove.to[2]) \div 2)]_vars

\* C13: a castle applied by makeMove puts the king on column 6 and the rook
\* on column 5 with columns 4 and 7 empty, or the king on column 2 and the
\* rook on column 3 with columns 0, 1 and 4 empty, and changes no square of
\* another row.
C13_CastleMovesRook ==
    [][(MoveApplied /\ IsCastle(AppliedMove)) =>
          LET row == AppliedMove.from[1]
              king == AppliedMove.piece
              rook == createPiece("R", getPieceColor(king))
              after == game'.board
          IN  /\ \A r \in 0..7 : r # row => after[r] = game.board[r]
              /\ IF AppliedMove.to[2] = 6
                 THEN /\ after[row][6] = king /\ after[row][5] = rook
                      /\ after[row][4] = null /\ after[row][7] = null
                      /\ \A c \in 0..3 : after[row][c] = game.board[row][c]
                 ELSE /\ after[row][2] = king /\ after[row][3] = rook
                      /\ after[row][0] = null /\ after[row][1] = null
                      /\ after[row][4] = null
                      /\ \A c \in 5..7 : after[row][c] = game.board[row][c]]_vars

\* C13 at work: Black has castled queenside after White did.
C13_Witness ==
    /\ applied > 0
    /\ game.lastMove # NoLastMove
    /\ game.lastMove[1].piece = "k"
    /\ game.lastMove[1].from = <<0, 4>>
    /\ game.lastMove[1].to = <<0, 2>>
    /\ game.board[0][3] = "r"
    /\ game.board[7][2] = "K"
    /\ game.board[7][3] = "R"

\* C14: a pawn stands on its farthest row only while its promotion is
\* pending and the turn is still its own; with no promotion pending, no
\* white pawn is on row 0 and no black pawn on row 7.
C14_PromotedBeforeTurnPasses ==
    \A col \in 0..7 :
        /\ game.board[0][col] = "P" =>
              game.promotionPending = <<0, col, "P">> /\ game.currentTurn = WHITE
        /\ game.board[7][col] = "p" =>
              game.promotionPending = <<7, col, "p">> /\ game.currentTurn = BLACK

\* C18: tryMove from the selected square to a destination that is not a
\* legal destination of the piece on it, for the side to move, changes
\* nothing but the selection, which it clears; no callback is scheduled.
C18_IllegalMoveRejected ==
    game.selectedSquare # NoSquare =>
        LET from == game.selectedSquare
            legal == getLegalMoves(game.board, from[1], from[2], game.castlingRights,
                                   game.enPassantSquare, game.currentTurn)
        IN  \A toRow \in 0..7, toCol \in 0..7 :
                ~Contains(legal, toRow, toCol)
                => tryMove(game, from[1], from[2], toRow, toCol)
                   = [game EXCEPT !.selectedSquare = NoSquare]

\* C18 at work: the user has selected a piece, and a destination within the
\* piece's reach that would leave the king attacked is rejected.
C18_Witness ==
    /\ game.selectedSquare # NoSquare
    /\ game.currentTurn = WHITE
    /\ \E to \in ClickSquares :
          /\ Contains(getPseudoLegalMoves(game.board, game.selectedSquare[1],
                                          game.selectedSquare[2]), to[1], to[2])
          /\ ~isMoveLegal(game.board, game.selectedSquare[1], game.selectedSquare[2],
                          to[1], to[2], WHITE, game.castlingRights,
                          game.enPassantSquare)
          /\ handleSquareClick(game, to[1], to[2])
             = [game EXCEPT !.selectedSquare = NoSquare]

-----------------------------------------------------------------------------
(* The rule engine on its own.  The functions of js/rules.js, js/pieces.js  *)
(* and js/utils.js are asked one question of a position: two kings on their *)
(* home squares with a few pieces in the centre, or a king and its rooks at *)
(* home with pieces between them and enemy rooks on the files they use.     *)

\* The squares of the centre that hold the extra pieces: e4, e3, b4, d3, d2.
CentreSquares == {<<4, 4>>, <<5, 4>>, <<4, 1>>, <<5, 3>>, <<6, 3>>}

ExtraPieces == {"P", "N", "B", "R", "Q", "p", "n", "b", "r", "q"}

\* A position has at most MaxExtraPieces pieces besides the kings and the
\* rooks at home.
MaxExtraPieces == 2

\* The sets of at most n placements <<row, col, piece>> on distinct squares.
RECURSIVE PlacementsUpTo(_, _)
PlacementsUpTo(candidates, n) ==
    IF n = 0 THEN {{}}
    ELSE LET smaller == PlacementsUpTo(candidates, n - 1)
         IN  smaller \cup
             {ps \cup {c} : <<ps, c>> \in
                 {pc \in smaller \X candidates :
                     \A p \in pc[1] : p[1] # pc[2][1] \/ p[2] # pc[2][2]}}

Placements(candidates) == PlacementsUpTo(candidates, MaxExtraPieces)

MaterialInputs ==
    {[board |-> BoardOf({<<7, 4, "K">>, <<0, 4, "k">>} \cup ps),
      castlingRights |-> NoCastlingRights, enPassantSquare |-> NoSquare,
      color |-> WHITE, ply |-> 0] :
        ps \in Placements({<<s[1], s[2], piece>> : s \in CentreSquares,
                                                    piece \in ExtraPieces})}

\* The rights a side can hold with its king and both rooks at home.
HomeRights(color) ==
    {[whiteKingside |-> color = WHITE /\ k, whiteQueenside |-> color = WHITE /\ q,
      blackKingside |-> color = BLACK /\ k, blackQueenside |-> color = BLACK /\ q] :
        k \in BOOLEAN, q \in BOOLEAN}

\* The side to move has its king and rooks at home; its knights may stand
\* between them, and enemy rooks on the files b to g, four rows up the board.
CastlingInputs ==
    {[board |-> BoardOf({<<home, 4, createPiece("K", color)>>,
                         <<home, 0, createPiece("R", color)>>,
                         <<home, 7, createPiece("R", color)>>,
                         <<7 - home, 4, createPiece("K", Other(color))>>} \cup ps),
      castlingRights |-> rights, enPassantSquare |-> NoSquare,
      color |-> color, ply |-> 0] :
        <<color, home, rights, ps>> \in
            UNION {{<<c, IF c = WHITE THEN 7 ELSE 0, r, ps>> :
                       r \in HomeRights(c),
                       ps \in Placements(
                           {<<IF c = WHITE THEN 7 ELSE 0, col, createPiece("N", c)>> :
                               col \in {1, 2, 3, 5, 6}}
                           \cup {<<IF c = WHITE THEN 3 ELSE 4, col,
                                   createPiece("R", Other(c))>> : col \in 1..6})} :
                   c \in {WHITE, BLACK}}}

RuleInputs == MaterialInputs \cup CastlingInputs

\* Squares off the board, on each side and at a corner.
OutOfBoard == {<<-1, 4>>, <<8, 4>>, <<4, -1>>, <<4, 8>>, <<8, 8>>}

\* The home square of the king of a color.
KingHome(color) == IF color = WHITE THEN <<7, 4>> ELSE <<0, 4>>

\* The squares isSquareAttacked is asked about.
AttackQueries == {<<5, 3>>, <<5, 4>>, <<5, 5>>, <<6, 4>>}

InitRules ==
    /\ game = NewGame
    /\ applied = 0
    /\ fired = 0
    /\ node \in RuleInputs
    /\ result = <<>>

AskInsufficientMaterial ==
    /\ result = <<>>
    /\ result' = [kind |-> "material", value |-> isInsufficientMaterial(node.board)]
    /\ UNCHANGED <<game, applied, fired, node>>

AskInCheck(color) ==
    /\ result = <<>>
    /\ result' = [kind |-> "check", color |-> color,
                  value |-> isInCheck(node.board, color)]
    /\ UNCHANGED <<game, applied, fired, node>>

AskSquareAttacked(row, col, color) ==
    /\ result = <<>>
    /\ result' = [kind |-> "attacked", square |-> <<row, col>>, color |-> color,
                  value |-> isSquareAttacked(node.board, row, col, color)]
    /\ UNCHANGED <<game, applied, fired, node>>

\* getLegalMoves for the side to move: the call returns a list, or throws at
\* its first line.
AskLegalMoves(row, col) ==
    /\ result = <<>>
    /\ result' = IF indexThrows(node.board, row, col)
                 THEN [kind |-> "thrown", square |-> <<row, col>>,
                       error |-> "TypeError"]
                 ELSE [kind |-> "legal", square |-> <<row, col>>,
                       moves |-> getLegalMoves(node.board, row, col,
                                               node.castlingRights,
                                               node.enPassantSquare, node.color)]
    /\ UNCHANGED <<game, applied, fired, node>>

\* evaluateBoard of js/ai.js is asked for the score of the position.
AskEvaluateBoard(color) ==
    /\ result = <<>>
    /\ result' = [kind |-> "evaluation", color |-> color,
                  value |-> evaluateBoard(node.board, color)]
    /\ UNCHANGED <<game, applied, fired, node>>

NextRules ==
    \/ AskInsufficientMaterial
    \/ \E color \in {WHITE, BLACK} : AskEvaluateBoard(color)
    \/ \E color \in {WHITE, BLACK} : AskInCheck(color)
    \/ \E s \in AttackQueries, color \in {WHITE, BLACK} :
          AskSquareAttacked(s[1], s[2], color)
    \/ \E s \in {KingHome(node.color)} \cup OutOfBoard : AskLegalMoves(s[1], s[2])

SpecRules == InitRules /\ [][NextRules]_vars

-----------------------------------------------------------------------------
(* Properties of the rule engine, checked on the answers it gives.          *)

LegalAnswer == result # <<>> /\ result.kind = "legal"

\* The two castles of a color: the king's destination column, the right,
\* the rook's corner and destination, the columns between king and rook.
Castles(color) ==
    {[to |-> 6, right |-> IF color = WHITE THEN "whiteKingside" ELSE "blackKingside",
      corner |-> 7, rookTo |-> 5, between |-> {5, 6}],
     [to |-> 2, right |-> IF color = WHITE THEN "whiteQueenside" ELSE "blackQueenside",
      corner |-> 0, rookTo |-> 3, between |-> {1, 2, 3}]}

\* The board after the castle has been played on the row home.
AfterCastle(board, home, castle) ==
    [board EXCEPT ![home] = [[[[@ EXCEPT ![castle.to] = board[home][4]]
                                  EXCEPT ![4] = null]
                                  EXCEPT ![castle.rookTo] = board[home][castle.corner]]
                                  EXCEPT ![castle.corner] = null]]

NonKings(board, color) ==
    {<<row, col, board[row][col]>> : <<row, col>> \in
        {sq \in (0..7) \X (0..7) :
            /\ board[sq[1]][sq[2]] # null
            /\ getPieceColor(board[sq[1]][sq[2]]) = color
            /\ getPieceType(board[sq[1]][sq[2]]) # "K"}}

\* C15: with one king of each color, isInsufficientMaterial is true exactly
\* for king against king, for a single knight or bishop against the lone
\* king, and for one bishop each on squares of the same color; it is false
\* for any other material.
C15_MaterialTable ==
    (result # <<>> /\ result.kind = "material") =>
        LET white == NonKings(node.board, WHITE)
            black == NonKings(node.board, BLACK)
            all == white \cup black
        IN  result.value
            <=> \/ all = {}
                \/ /\ Cardinality(all) = 1
                   /\ \A p \in all : getPieceType(p[3]) \in {"N", "B"}
                \/ /\ Cardinality(white) = 1 /\ Cardinality(black) = 1
                   /\ \A p \in all : getPieceType(p[3]) = "B"
                   /\ \A p \in white, q \in black :
                         (p[1] + p[2]) % 2 = (q[1] + q[2]) % 2

\* C15 at work: a white and a black bishop on squares of the same color, and
\* the answer is a draw.
C15_Witness ==
    /\ result # <<>> /\ result.kind = "material"
    /\ result.value
    /\ node.board[4][4] = "B"
    /\ node.board[5][3] = "b"

\* C16: isInCheck is true exactly when the king of the color is on the board
\* and its square is a pseudo-legal destination of a piece of the other color.
C16_CheckIsPseudoLegalCapture ==
    (result # <<>> /\ result.kind = "check") =>
        LET kingPos == findKing(node.board, result.color)
        IN  result.value
            <=> /\ kingPos # NoSquare
                /\ \E row \in 0..7, col \in 0..7 :
                      /\ node.board[row][col] # null
                      /\ getPieceColor(node.board[row][col]) # result.color
                      /\ Contains(getPseudoLegalMoves(node.board, row, col),
                                  kingPos[1], kingPos[2])

\* C16 at work: a rook stands on the king's file with a piece between them,
\* and the king is not in check.
C16_Witness ==
    /\ result # <<>> /\ result.kind = "check"
    /\ result.color = WHITE
    /\ ~result.value
    /\ node.board[7][4] = "K"
    /\ node.board[4][4] \in {"r", "q"}
    /\ node.board[5][4] # null

\* C17: when the only piece of the attacking color besides its king is a
\* pawn, and the king is not next to the square, isSquareAttacked is true
\* exactly on the two squares diagonally in front of the pawn, empty or not.
C17_PawnAttacksDiagonals ==
    (result # <<>> /\ result.kind = "attacked") =>
        LET attacker == Other(result.color)
            direction == IF attacker = WHITE THEN -1 ELSE 1
            king == findKing(node.board, attacker)
        IN  \A pawn \in NonKings(node.board, attacker) :
                (/\ NonKings(node.board, attacker) = {pawn}
                 /\ getPieceType(pawn[3]) = "P"
                 /\ \/ Abs(king[1] - result.square[1]) > 1
                    \/ Abs(king[2] - result.square[2]) > 1)
                => (result.value
                    <=> result.square \in {<<pawn[1] + direction, pawn[2] - 1>>,
                                           <<pawn[1] + direction, pawn[2] + 1>>})

\* C19: with a row or column off the board, getPieceAt returns null,
\* setPieceAt leaves the board as it is, getLegalMoves and getPseudoLegalMoves
\* return the empty list and isMoveLegal false, and none of them throws.
C19_OutOfBoardFailsSoft ==
    /\ \A s \in OutOfBoard :
          /\ getPieceAt(node.board, s[1], s[2]) = null
          /\ setPieceAt(node.board, s[1], s[2], "Q") = node.board
          /\ ~indexThrows(node.board, s[1], s[2])
          /\ getPseudoLegalMoves(node.board, s[1], s[2]) = <<>>
          /\ ~isMoveLegal(node.board, s[1], s[2], 4, 4, node.color,
                          node.castlingRights, node.enPassantSquare)
    /\ (result # <<>> /\ result.kind \in {"legal", "thrown"}
        /\ result.square \in OutOfBoard)
       => (result.kind = "legal" /\ result.moves = <<>>)

-----------------------------------------------------------------------------
(* The arrays and objects behind the values.  In JavaScript a board is an    *)
(* array of eight row arrays and the castling rights are an object; a       *)
(* function that is handed one can write to it.  The heap holds the row     *)
(* arrays and the rights objects by number; a board is the eight numbers of *)
(* its rows, and the functions below make the same reads, copies and writes *)
(* as the code, in the same order.                                          *)

EmptyHeap == [rows |-> <<>>, objects |-> <<>>]

\* Eight new row arrays that hold a board.
allocateBoard(heap, board) ==
    [heap |-> [heap EXCEPT !.rows = @ \o [i \in 1..8 |-> board[i - 1]]],
     board |-> [row \in 0..7 |-> Len(heap.rows) + row + 1]]

\* A new object.
allocateObject(heap, object) ==
    [heap |-> [heap EXCEPT !.objects = Append(@, object)],
     id |-> Len(heap.objects) + 1]

\* The board value held by the rows of a board.
boardIn(heap, board) == [row \in 0..7 |-> heap.rows[board[row]]]

\* A copy that shares the row arrays of the board it copies.
copyBoardSharingRows(heap, board) == [heap |-> heap, board |-> board]

\* copyBoard: board.map(row => [...row]).
copyBoardInHeap(heap, board) == allocateBoard(heap, boardIn(heap, board))

\* board[row][col] = piece.
writeSquare(heap, board, row, col, piece) ==
    [heap EXCEPT !.rows[board[row]][col] = piece]

\* The castling part of wouldLeaveKingInCheck and simulateMove.
castleRookInHeap(heap, board, piece, fromRow, fromCol, toCol) ==
    LET isWhite == getPieceColor(piece) = WHITE
        home == IF isWhite THEN 7 ELSE 0
    IN  IF piece # null /\ getPieceType(piece) = "K" /\ fromRow = home /\ fromCol = 4
        THEN IF toCol = 6
             THEN writeSquare(writeSquare(heap, board, home, 5,
                                          heap.rows[board[home]][7]),
                              board, home, 7, null)
             ELSE IF toCol = 2
             THEN writeSquare(writeSquare(heap, board, home, 3,
                                          heap.rows[board[home]][0]),
                              board, home, 0, null)
             ELSE heap
        ELSE heap

\* The writes of a move to a board.
writeMove(heap, board, piece, fromRow, fromCol, toRow, toCol, enPassantSquare) ==
    IF piece # null /\ getPieceType(piece) = "P" /\ enPassantSquare # NoSquare
       /\ toRow = enPassantSquare[1] /\ toCol = enPassantSquare[2]
    THEN writeSquare(writeSquare(writeSquare(heap, board, toRow, toCol, piece),
                                 board, fromRow, fromCol, null),
                     board, fromRow, toCol, null)
    ELSE writeSquare(writeSquare(heap, board, toRow, toCol, piece),
                     board, fromRow, fromCol, null)

\* The move written to the copy the function has made.
writeToCopy(copy, fromRow, fromCol, toRow, toCol, enPassantSquare) ==
    [heap |-> castleRookInHeap(
                  writeMove(copy.heap, copy.board,
                            copy.heap.rows[copy.board[fromRow]][fromCol],
                            fromRow, fromCol, toRow, toCol, enPassantSquare),
                  copy.board, copy.heap.rows[copy.board[fromRow]][fromCol],
                  fromRow, fromCol, toCol),
     board |-> copy.board]

\* The first lines of wouldLeaveKingInCheck and of simulateMove: the board is
\* copied and the move is made on the copy.
moveOnCopy(heap, board, fromRow, fromCol, toRow, toCol, enPassantSquare) ==
    writeToCopy(copyBoardInHeap(heap, board), fromRow, fromCol, toRow, toCol,
                enPassantSquare)

\* wouldLeaveKingInCheck: the heap after the call, and its answer.
wouldLeaveKingInCheckInHeap(tested, color) ==
    [heap |-> tested.heap,
     check |-> LET testBoard == boardIn(tested.heap, tested.board)
                   kingPos == findKing(testBoard, color)
               IN  IF kingPos = NoSquare THEN TRUE
                   ELSE isSquareAttacked(testBoard, kingPos[1], kingPos[2], color)]

\* One step of the filter of getLegalMoves.
filterStep(acc, move, answer) ==
    [heap |-> answer.heap,
     moves |-> IF answer.check THEN acc.moves ELSE Append(acc.moves, move)]

RECURSIVE filterInHeap(_, _, _, _, _, _, _, _)
filterInHeap(acc, board, row, col, color, enPassantSquare, pseudoLegal, i) ==
    IF i > Len(pseudoLegal) THEN acc
    ELSE filterInHeap(
             filterStep(acc, pseudoLegal[i],
                        wouldLeaveKingInCheckInHeap(
                            moveOnCopy(acc.heap, board, row, col, pseudoLegal[i][1],
                                       pseudoLegal[i][2], enPassantSquare),
                            color)),
             board, row, col, color, enPassantSquare, pseudoLegal, i + 1)

\* getLegalMoves: the heap after the call, and the list it returns.
getLegalMovesInHeap(heap, board, row, col, rights, enPassantSquare, color) ==
    LET piece == heap.rows[board[row]][col]
        type == getPieceType(piece)
        pseudoLegal ==
            getPseudoLegalMoves(boardIn(heap, board), row, col)
            \o (IF type = "K"
                THEN getCastlingMoves(boardIn(heap, board), row, col, color,
                                      heap.objects[rights])
                ELSE <<>>)
            \o (IF type = "P"
                THEN getEnPassantMoves(boardIn(heap, board), row, col, color,
                                       enPassantSquare)
                ELSE <<>>)
    IN  IF piece = null \/ getPieceColor(piece) # color
        THEN [heap |-> heap, moves |-> <<>>]
        ELSE filterInHeap([heap |-> heap, moves |-> <<>>], board, row, col, color,
                          enPassantSquare, pseudoLegal, 1)

\* One piece of the loop of getAllLegalMoves (and of isCheckmate and
\* isStalemate, which make the same calls).
collectStep(acc, row, col, answer) ==
    [heap |-> answer.heap,
     moves |-> acc.moves \o [j \in 1..Len(answer.moves) |->
                                [from |-> <<row, col>>, to |-> answer.moves[j]]]]

RECURSIVE collectInHeap(_, _, _, _, _, _, _)
collectInHeap(acc, board, color, rights, enPassantSquare, pieces, i) ==
    IF i > Len(pieces) THEN acc
    ELSE collectInHeap(
             collectStep(acc, pieces[i].row, pieces[i].col,
                         getLegalMovesInHeap(acc.heap, board, pieces[i].row,
                                             pieces[i].col, rights, enPassantSquare,
                                             color)),
             board, color, rights, enPassantSquare, pieces, i + 1)

\* getAllLegalMoves: the heap after the call, and the list it returns.
getAllLegalMovesInHeap(heap, board, color, rights, enPassantSquare) ==
    collectInHeap([heap |-> heap, moves |-> <<>>], board, color, rights,
                  enPassantSquare, getPiecesOfColor(boardIn(heap, board), color), 1)

\* updateCastlingRights: the rights are spread into a new object, which is
\* written and returned.
updateCastlingRightsInHeap(heap, rights, fromRow, fromCol, piece) ==
    allocateObject(heap, updateCastlingRights(heap.objects[rights], fromRow,
                                              fromCol, piece))

\* The end of simulateMove: the rights of a captured rook are cleared in the
\* new object; the captured piece is read from the board the function was
\* given, after the writes to the copy.
finishSimulateMove(played, board, updated, move, piece) ==
    [heap |-> [updated.heap EXCEPT !.objects[updated.id] =
                  clearCapturedRookRights(
                      @, played.heap.rows[board[move.to[1]]][move.to[2]],
                      move.to[1], move.to[2])],
     newBoard |-> played.board,
     newCastling |-> updated.id,
     newEnPassant |->
         IF piece # null /\ getPieceType(piece) = "P"
            /\ Abs(move.to[1] - move.from[1]) = 2
         THEN <<(move.from[1] + move.to[1]) \div 2, move.to[2]>> ELSE NoSquare]

startSimulateMove(played, board, rights, move, piece) ==
    finishSimulateMove(played, board,
                       updateCastlingRightsInHeap(played.heap, rights, move.from[1],
                                                  move.from[2], piece),
                       move, piece)

\* simulateMove: the heap after the call, and the board, the rights object
\* and the en-passant target it returns.
simulateMoveInHeap(heap, board, move, rights, enPassantSquare) ==
    startSimulateMove(moveOnCopy(heap, board, move.from[1], move.from[2],
                                 move.to[1], move.to[2], enPassantSquare),
                      board, rights, move,
                      heap.rows[board[move.from[1]]][move.from[2]])

-----------------------------------------------------------------------------
(* Properties of the copies, checked on the positions given to the engine.  *)

\* The position of the node in a heap of its own: the board and the rights
\* object the caller hands to the engine.
NodeInHeap ==
    LET stored == allocateBoard(EmptyHeap, node.board)
        rights == allocateObject(stored.heap, node.castlingRights)
    IN  [heap |-> rights.heap, board |-> stored.board, rights |-> rights.id]

\* The board and the rights object hold what they held.
Untouched(before, after, board, rights) ==
    /\ boardIn(after, board) = boardIn(before, board)
    /\ after.objects[rights] = before.objects[rights]

\* The two boards share no row array.
NoSharedRow(board1, board2) == \A r1 \in 0..7, r2 \in 0..7 : board1[r1] # board2[r2]

\* The second move of a search line: the reply is simulated on the board of
\* the child.
GrandchildOnCopy(root, child, replies, reply) ==
    LET grandchild == simulateMoveInHeap(replies.heap, child.newBoard, reply,
                                         child.newCastling, child.newEnPassant)
    IN  /\ Untouched(root.heap, grandchild.heap, root.board, root.rights)
        /\ Untouched(replies.heap, grandchild.heap, child.newBoard, child.newCastling)
        /\ NoSharedRow(grandchild.newBoard, root.board)
        /\ NoSharedRow(grandchild.newBoard, child.newBoard)
        /\ grandchild.newCastling \notin {root.rights, child.newCastling}

\* The first move of a search line: the move is simulated on the board of
\* the root, and the replies are listed on the board of the child.
ChildOnCopy(root, listed, move) ==
    LET child == simulateMoveInHeap(listed.heap, root.board, move, root.rights,
                                    node.enPassantSquare)
        replies == getAllLegalMovesInHeap(child.heap, child.newBoard,
                                          Other(node.color), child.newCastling,
                                          child.newEnPassant)
        expected == simulateMove(node.board, move, node.castlingRights,
                                 node.enPassantSquare)
    IN  /\ Untouched(root.heap, replies.heap, root.board, root.rights)
        /\ NoSharedRow(child.newBoard, root.board)
        /\ child.newCastling # root.rights
        /\ boardIn(replies.heap, child.newBoard) = expected.newBoard
        /\ replies.heap.objects[child.newCastling] = expected.newCastling
        /\ child.newEnPassant = expected.newEnPassant
        /\ \A j \in 1..Len(replies.moves) :
              GrandchildOnCopy(root, child, replies, replies.moves[j])

\* C20: the calls of getLegalMoves for every piece (the loop of isCheckmate,
\* isStalemate and getAllLegalMoves) and the simulated moves of a search
\* line leave the board and the rights object they were given as they were;
\* every board simulateMove returns has row arrays of its own, and the
\* en-passant target is only read.
C20_SimulationOnCopies ==
    LET root == NodeInHeap
        listed == getAllLegalMovesInHeap(root.heap, root.board, node.color,
                                         root.rights, node.enPassantSquare)
    IN  /\ Untouched(root.heap, listed.heap, root.board, root.rights)
        /\ listed.moves = getAllLegalMoves(node.board, node.color, node.castlingRights,
                                           node.enPassantSquare)
        /\ \A i \in 1..Len(listed.moves) : ChildOnCopy(root, listed, listed.moves[i])

\* C20 at work: findBestMove has returned a move that captures; simulated
\* in the heap, the copy holds the board after the capture and the board of
\* the root still holds the captured piece.
C20_Witness ==
    /\ BestMoveAnswer
    /\ result.move # NoMove
    /\ node.board[result.move.to[1]][result.move.to[2]] # null
    /\ LET root == NodeInHeap
           child == simulateMoveInHeap(root.heap, root.board, result.move,
                                       root.rights, node.enPassantSquare)
       IN  /\ child.heap.rows[child.newBoard[result.move.to[1]]][result.move.to[2]]
              = node.board[result.move.from[1]][result.move.from[2]]
           /\ child.heap.rows[root.board[result.move.to[1]]][result.move.to[2]]
              = node.board[result.move.to[1]][result.move.to[2]]

-----------------------------------------------------------------------------
(* Properties of the turns of a game.                                        *)

\* The position and the selection of the two games are the same.
SamePosition(g1, g2) ==
    /\ g1.board = g2.board
    /\ g1.currentTurn = g2.currentTurn
    /\ g1.castlingRights = g2.castlingRights
    /\ g1.enPassantSquare = g2.enPassantSquare
    /\ g1.moveHistory = g2.moveHistory
    /\ g1.selectedSquare = g2.selectedSquare

ClicksBlocked(g) ==
    \/ g.currentTurn = BLACK
    \/ g.aiThinking
    \/ g.promotionPending # NoPromotion
    \/ g.gameOver

\* C21: while it is Black's turn, or the computer is thinking, or a promotion
\* is pending, or the game is over, a click on any square changes neither
\* the board, the side to move, the castling rights, the en-passant target,
\* the move history nor the selection.
C21_NoMoveOutOfTurn ==
    ClicksBlocked(game) =>
        \A row \in 0..7, col \in 0..7 :
            SamePosition(handleSquareClick(game, row, col), game)

\* C21 at work: the user has moved, the computer is thinking with Black to
\* move, and a click on Black's pawn on f7 selects nothing.
C21_Witness ==
    /\ applied = 1
    /\ game.currentTurn = BLACK
    /\ game.aiThinking
    /\ game.board[1][5] = "p"
    /\ handleSquareClick(game, 1, 5).selectedSquare = NoSquare

KingsOf(board, king) == {sq \in (0..7) \X (0..7) : board[sq[1]][sq[2]] = king}

\* C22: in every state of a game the board holds exactly one white king and
\* exactly one black king.
C22_OneKingEach ==
    /\ Cardinality(KingsOf(game.board, "K")) = 1
    /\ Cardinality(KingsOf(game.board, "k")) = 1

-----------------------------------------------------------------------------
(* Properties of the scores of the search.                                   *)

\* The side to move at the node of a search.
SideToMove(color, isMaximizing) == IF isMaximizing THEN color ELSE Other(color)

\* The score the node must have when the game has ended at it.
TerminalScore(isMaximizing) == IF isMaximizing THEN -CheckmateScore ELSE CheckmateScore

\* C23: in both searches a node at which the searching color is to move and
\* is checkmated scores -10000, a node at which the opponent is to move and
\* is checkmated scores +10000, and a node that is stalemate for the side to
\* move or has insufficient material scores 0.
C23_TerminalScores ==
    SearchAnswer =>
        LET mover == SideToMove(result.color, result.isMaximizing)
        IN  IF isCheckmate(node.board, mover, node.castlingRights, node.enPassantSquare)
            THEN /\ result.plain = TerminalScore(result.isMaximizing)
                 /\ result.pruned = TerminalScore(result.isMaximizing)
            ELSE (\/ isStalemate(node.board, mover, node.castlingRights,
                                 node.enPassantSquare)
                  \/ isInsufficientMaterial(node.board))
                 => result.plain = 0 /\ result.pruned = 0

-----------------------------------------------------------------------------
(* Properties of the evaluation.  The scores of the model are ten times the  *)
(* scores of the code, so a weight of 0.1 is 1 and a weight of 0.3 is 3.     *)

EvaluationAnswer == result # <<>> /\ result.kind = "evaluation"

SquaresOf(board, color) ==
    {sq \in (0..7) \X (0..7) :
        board[sq[1]][sq[2]] # null /\ getPieceColor(board[sq[1]][sq[2]]) = color}

\* The value of the pieces of the color on the squares.
MaterialOn(board, color, squares) ==
    LET count(type) == Cardinality({sq \in SquaresOf(board, color) \cap squares :
                                       getPieceType(board[sq[1]][sq[2]]) = type})
    IN  1 * count("P") + 3 * count("N") + 3 * count("B") + 5 * count("R")
        + 9 * count("Q") + 0 * count("K")

\* The sum of the four terms, the mobility term being perPiece for each
\* piece of the color.
SumOfTerms(board, color, perPiece) ==
    LET everywhere == (0..7) \X (0..7)
        centre == {<<3, 3>>, <<3, 4>>, <<4, 3>>, <<4, 4>>}
        kingPos == findKing(board, color)
    IN  10 * (MaterialOn(board, color, everywhere)
              - MaterialOn(board, Other(color), everywhere))
        + 10 * (IF kingPos = NoSquare THEN 0
                ELSE evaluateKingSafety(board, kingPos, color))
        + 3 * (MaterialOn(board, color, centre)
               - MaterialOn(board, Other(color), centre))
        + perPiece * Cardinality(SquaresOf(board, color))

-----------------------------------------------------------------------------
(* Properties of the three simulations of a move, checked on the positions   *)
(* of the games.                                                             *)

\* The move is made alike by simulateMove, by makeMove and by the legality
\* test.
SimulatedAlike(g, move) ==
    LET sim == simulateMove(g.board, move, g.castlingRights, g.enPassantSquare)
        made == applyMove(g, move.from[1], move.from[2], move.to[1], move.to[2])
    IN  /\ sim.newBoard = made.board
        /\ sim.newCastling = made.castlingRights
        /\ sim.newEnPassant = made.enPassantSquare
        /\ sim.newBoard = testBoardAfter(g.board, move.from[1], move.from[2],
                                         move.to[1], move.to[2], g.enPassantSquare)

NonPromotion(g, move) ==
    ~isPromotionMove(g.board, move.from[1], move.to[1],
                     g.board[move.from[1]][move.from[2]])

AllLegalMovesIn(g, color) ==
    LET moves == getAllLegalMoves(g.board, color, g.castlingRights, g.enPassantSquare)
    IN  {moves[i] : i \in 1..Len(moves)}

\* C25: for every legal move of either color that is not a promotion,
\* simulateMove gives the board, the castling rights and the en-passant
\* target that makeMove gives, and the board that wouldLeaveKingInCheck
\* tests.
C25_SimulationsAgree ==
    \A color \in {WHITE, BLACK} :
        \A move \in AllLegalMovesIn(game, color) :
            NonPromotion(game, move) => SimulatedAlike(game, move)

\* C25 at work: White may castle on the king's side and capture en passant
\* or a rook in some game; here the castle is legal, and the simulation puts
\* the rook on f1 and takes both rights of White.
C25_Witness ==
    /\ game.currentTurn = WHITE
    /\ [from |-> <<7, 4>>, to |-> <<7, 6>>] \in AllLegalMovesIn(game, WHITE)
    /\ LET sim == simulateMove(game.board, [from |-> <<7, 4>>, to |-> <<7, 6>>],
                               game.castlingRights, game.enPassantSquare)
       IN  /\ sim.newBoard[7][5] = "R"
           /\ sim.newBoard[7][7] = null
           /\ game.castlingRights.whiteKingside
           /\ ~sim.newCastling.whiteKingside
           /\ ~sim.newCastling.whiteQueenside

-----------------------------------------------------------------------------
(* Properties of the callbacks and of the end of a game.                     *)

\* C26: every move applied to the board moves a piece of the color whose
\* turn it is at that moment, so the moves of White and Black alternate and
\* a callback left from an abandoned game applies no move of Black while it
\* is White's turn.
C26_MovesAlternate ==
    [][MoveApplied => getPieceColor(AppliedMove.piece) = game.currentTurn]_vars

\* C27: a castling right that is still true implies that the king of that
\* color stands on its home square and a rook of that color on the corner
\* of that side.
C27_RightsImplyHome ==
    \A side \in CastlingSides :
        game.castlingRights[side] =>
            LET color == SideColor(side)
                home == KingHome(color)
                corner == HomeCorner(side)
            IN  /\ game.board[home[1]][home[2]] = createPiece("K", color)
                /\ game.board[corner[1]][corner[2]] = createPiece("R", color)

\* The board, the side to move, the castling rights and the en-passant
\* target of the two games are the same.
SameBoardAndTurn(g1, g2) ==
    /\ g1.board = g2.board
    /\ g1.currentTurn = g2.currentTurn
    /\ g1.castlingRights = g2.castlingRights
    /\ g1.enPassantSquare = g2.enPassantSquare

\* C28: once the game is over, a step that is not a reset, pressed or made
\* by setDifficulty, changes neither the board, the side to move, the
\* castling rights nor the en-passant target.
C28_OverUntilReset ==
    [][game.gameOver =>
          \/ SameBoardAndTurn(game', game)
          \/ game' = reset(game)
          \/ \E level \in Levels : game' = setDifficulty(game, level)]_vars

-----------------------------------------------------------------------------
(* The game controller in an endgame.  The games start late in a game, with  *)
(* few pieces left: the board and the last move of Black are given, the      *)
(* moves before it are left out of the history and the captured pieces out   *)
(* of the lists.  The browser runs every callback in its queue; a reset      *)
(* would put the game at rest at once, and the state it leaves, a game with  *)
(* a callback of the abandoned one in the queue, is among the initial ones.  *)

\* The game with the pieces on the board after the move last of Black, and
\* timers callbacks in the queue.
Endgame(pieces, last, timers) ==
    [NewGame EXCEPT !.board = BoardOf(pieces),
                    !.lastMove = <<last>>,
                    !.castlingRights = NoCastlingRights,
                    !.moveHistory = <<<<coordsToNotation(last.from[1], last.from[2]),
                                        coordsToNotation(last.to[1], last.to[2])>>>>,
                    !.timers = timers]

\* Ka1 and the pawn on h7 against Ke5, Qb3 and Ng8, after Qb4-b3: the king
\* has no move, the pawn can go to h8 or take on g8.
PiecesBoxedKing ==
    {<<7, 0, "K">>, <<1, 7, "P">>, <<3, 4, "k">>, <<5, 1, "q">>, <<0, 6, "n">>}

LastBoxedKing == [from |-> <<4, 1>>, to |-> <<5, 1>>, piece |-> "q", captured |-> null]

\* Kh1 and the pawn on h7 against Ka8, Ng8 and the pawn on a2, after a3-a2:
\* both sides are about to promote.
PiecesPawnRace ==
    {<<7, 7, "K">>, <<1, 7, "P">>, <<0, 0, "k">>, <<0, 6, "n">>, <<6, 0, "p">>}

LastPawnRace == [from |-> <<5, 0>>, to |-> <<6, 0>>, piece |-> "p", captured |-> null]

\* Kg6 and the pawn on h7 against Kh8 and Ng8, after Nf6-g8: the black king
\* has no move.
PiecesCornered == {<<2, 6, "K">>, <<1, 7, "P">>, <<0, 7, "k">>, <<0, 6, "n">>}

LastCornered == [from |-> <<2, 5>>, to |-> <<0, 6>>, piece |-> "n", captured |-> null]

\* The last of the games has a callback in the queue: the user has made
\* every move since a reset before the callback pending at that time ran.
Endgames ==
    { Endgame(PiecesBoxedKing, LastBoxedKing, 0),
      Endgame(PiecesPawnRace, LastPawnRace, 0),
      Endgame(PiecesCornered, LastCornered, 1) }

InitEndgame ==
    /\ game \in Endgames
    /\ applied = 0
    /\ fired = 0
    /\ node = NoNode
    /\ result = <<>>

\* A timer expires and the browser runs makeAIMove.
RunCallback ==
    /\ game.timers > 0
    /\ \E random \in RandomDraws(game.aiDifficulty, game.board, BLACK,
                                 game.castlingRights, game.enPassantSquare) :
           game' = makeAIMove([game EXCEPT !.timers = @ - 1], random)
    /\ fired' = fired + 1
    /\ UNCHANGED <<applied, node, result>>

\* A callback is run: the queue holds one and the count of the callbacks run
\* goes up.  These are the steps of RunCallback, without the move it makes.
CallbackRuns == game.timers > 0 /\ fired' = fired + 1

\* The user picks a piece in the promotion dialog.
ChoosePromotion == \E piece \in PromotionChoices : HandlePromotion(piece)

NextEndgame ==
    \/ \E s \in ClickSquares : HandleSquareClick(s[1], s[2])
    \/ ChoosePromotion
    \/ RunCallback

\* Every callback in the queue is run in the end, and the user picks a piece
\* in the end when the promotion dialog is open.
SpecEndgame ==
    InitEndgame /\ [][NextEndgame]_vars /\ WF_fired(CallbackRuns) /\ WF_vars(ChoosePromotion)

-----------------------------------------------------------------------------
(* Properties of the end of a game and of the computer's reply.              *)

EndReasons == {"Checkmate! White wins!", "Checkmate! Black wins!", "Stalemate! Draw!"}

\* The step ends the game as a checkmate or a stalemate.
GameEnds == ~game.gameOver /\ game'.gameOver /\ game'.gameOverReason \in EndReasons

\* C29: when the game ends as checkmate or stalemate no promotion is
\* pending, and the player who did not make the last applied move has no
\* legal move on the board as it stands, in check for a checkmate and not in
\* check for a stalemate.
C29_EndAgainstNextPlayer ==
    [][GameEnds =>
          LET next == Other(getPieceColor(game'.lastMove[1].piece))
          IN  /\ game'.promotionPending = NoPromotion
              /\ NoLegalMoves(game'.board, next, game'.castlingRights,
                              game'.enPassantSquare)
              /\ isInCheck(game'.board, next)
                 <=> game'.gameOverReason # "Stalemate! Draw!"]_vars

\* The game is over, or it is White's turn with the computer not thinking and
\* no promotion pending.
AtRest(g) ==
    \/ g.gameOver
    \/ g.currentTurn = WHITE /\ ~g.aiThinking /\ g.promotionPending = NoPromotion

\* C30: when every callback in the queue is run in the end and every pending
\* promotion is chosen in the end, a game that is not at rest, as it is after
\* each accepted move of White, comes to rest: the controller never stays
\* with Black to move for ever.
C30_ComesToRest == (~AtRest(game)) ~> AtRest(game)

\* C30 at work: the user has moved, the computer has replied, and it is
\* White's turn again with nothing pending.
C30_Witness ==
    /\ applied = 1
    /\ Len(game.moveHistory) >= 3
    /\ getPieceColor(game.lastMove[1].piece) = BLACK
    /\ ~game.gameOver
    /\ game.currentTurn = WHITE
    /\ ~game.aiThinking
    /\ game.promotionPending = NoPromotion
    /\ game.timers = 0


=============================================================================
